---------------------------- MODULE Spec2Model ----------------------------
(***************************************************************************)
(* A model of the stack processor of src/comp/processor.py: its tick      *)
(* pipeline (StackProcessor.step), the instruction semantics              *)
(* (execute_instruction), the scheduled input controller (IOController)   *)
(* and the host's calls (step, run, schedule_input_event).                *)
(*                                                                         *)
(* Python integers are unbounded while TLC's are 32-bit, so every Python  *)
(* integer that can leave the range of a TLC integer (stack words, PC,    *)
(* return addresses, handler addresses, input and output values) is       *)
(* written in base 2^16 as a pair <<hi, lo>> with 0 <= lo < 2^16 and hi   *)
(* any integer: the pair stands for hi * 2^16 + lo.  A 32-bit word is a   *)
(* pair with 0 <= hi < 2^16.  Counters that stay small (cycle_count,      *)
(* instruction_count, remaining_cycles, bytes) are plain integers.        *)
(***************************************************************************)
EXTENDS Integers, Sequences, FiniteSets, TLC

\* ----------------------------------------------------------------------
\* Python integers in base 2^16
\* ----------------------------------------------------------------------

Limb == 256 * 256

\* The pair of a small integer n.
IntOf(n) == <<n \div Limb, n % Limb>>

IsWord(x) == x[1] \in 0..(Limb - 1) /\ x[2] \in 0..(Limb - 1)

\* value & 0xFFFFFFFF
Mask32(x) == <<x[1] % Limb, x[2]>>

\* value & 0xFF, as a byte
MaskFF(x) == x[2] % 256

IntLess(a, b) == a[1] < b[1] \/ (a[1] = b[1] /\ a[2] < b[2])

IntLeq(a, b) == a = b \/ IntLess(a, b)

IntAdd(a, b) ==
    LET s == a[2] + b[2]
    IN  <<a[1] + b[1] + (s \div Limb), s % Limb>>

IntSub(a, b) ==
    LET d == a[2] - b[2]
    IN  <<a[1] - b[1] + (d \div Limb), d % Limb>>

\* (x * y) mod 2^16 for 0 <= x, y < 2^16, without leaving 32 bits.
MulMod16(x, y) ==
    ((((x * (y \div 256)) % 256) * 256) + (x * (y % 256))) % Limb

\* (a * b) & 0xFFFFFFFF for words a, b.
WordMul(a, b) ==
    LET p   == a[2] * (b[2] \div 256)
        q   == a[2] * (b[2] % 256)
        low == ((p % 256) * 256) + q
        car == (low \div Limb) + (p \div 256)
    IN  <<(MulMod16(a[1], b[2]) + MulMod16(a[2], b[1]) + car) % Limb,
          low % Limb>>

\* Bitwise operations on 16-bit limbs, bit by bit.
RECURSIVE BitAnd(_, _, _)
BitAnd(x, y, n) ==
    IF n = 0 THEN 0
    ELSE ((x % 2) * (y % 2)) + (2 * BitAnd(x \div 2, y \div 2, n - 1))

RECURSIVE BitOr(_, _, _)
BitOr(x, y, n) ==
    IF n = 0 THEN 0
    ELSE (IF (x % 2) + (y % 2) > 0 THEN 1 ELSE 0)
         + (2 * BitOr(x \div 2, y \div 2, n - 1))

\* a & b, a | b, (~a) & 0xFFFFFFFF for words
WordAnd(a, b) == <<BitAnd(a[1], b[1], 16), BitAnd(a[2], b[2], 16)>>

WordOr(a, b) == <<BitOr(a[1], b[1], 16), BitOr(a[2], b[2], 16)>>

WordNot(a) == <<(Limb - 1) - a[1], (Limb - 1) - a[2]>>

\* k * x for a small factor 0 <= k <= 256 and a non-negative x.
Scale(k, x) == <<(k * x[1]) + ((k * x[2]) \div Limb), (k * x[2]) % Limb>>

\* The bytes of a word, most significant first.
WordBytes(a) == <<a[1] \div 256, a[1] % 256, a[2] \div 256, a[2] % 256>>

\* One digit of the long division by b in base 256: from the quotient and
\* remainder of the higher bytes to those with byte d appended.
DivStep(st, d, b) ==
    LET t == IntAdd(Scale(256, st.rem), <<0, d>>)
        k == CHOOSE j \in 0..255 :
                 IntLeq(Scale(j, b), t) /\ IntLess(t, Scale(j + 1, b))
    IN  [quot |-> IntAdd(Scale(256, st.quot), <<0, k>>),
         rem  |-> IntSub(t, Scale(k, b))]

\* a // b and a % b for words a, b with b # 0.
WordDivMod(a, b) ==
    LET d  == WordBytes(a)
        s0 == [quot |-> <<0, 0>>, rem |-> <<0, 0>>]
    IN  DivStep(DivStep(DivStep(DivStep(s0, d[1], b), d[2], b), d[3], b), d[4], b)

WordDiv(a, b) == WordDivMod(a, b).quot

WordMod(a, b) == WordDivMod(a, b).rem

\* str(value) for a word: its decimal digits as ASCII codes.
RECURSIVE Digits(_)
Digits(x) ==
    LET qh  == x[1] \div 10
        mid == ((x[1] % 10) * Limb) + x[2]
        q   == <<qh, 0>>
        ql  == mid \div 10
        d   == mid % 10
        quo == IntAdd(q, IntOf(ql))
    IN  IF quo = <<0, 0>> THEN <<48 + d>>
        ELSE Append(Digits(quo), 48 + d)

\* ----------------------------------------------------------------------
\* ISA: opcodes and cycle costs (src/isa/opcodes.py)
\* ----------------------------------------------------------------------

Opcode_PUSH == 0
Opcode_POP == 1
Opcode_DUP == 2
Opcode_SWAP == 3
Opcode_DROP == 4
Opcode_ADD == 16
Opcode_SUB == 17
Opcode_MUL == 18
Opcode_DIV == 19
Opcode_MOD == 20
Opcode_NEG == 21
Opcode_AND == 32
Opcode_OR == 33
Opcode_XOR == 34
Opcode_NOT == 35
Opcode_EQ == 48
Opcode_NE == 49
Opcode_LT == 50
Opcode_LE == 51
Opcode_GT == 52
Opcode_GE == 53
Opcode_JMP == 64
Opcode_JZ == 65
Opcode_JNZ == 66
Opcode_CALL == 67
Opcode_RET == 68
Opcode_LOAD == 80
Opcode_STORE == 81
Opcode_LOAD_I == 82
Opcode_LOADB == 83
Opcode_STOREB == 84
Opcode_IN == 96
Opcode_OUT == 97
Opcode_HALT == 112
Opcode_NOP == 113
Opcode_INT == 114
Opcode_IRET == 115
Opcode_V_LOAD == 128
Opcode_V_STORE == 129
Opcode_V_ADD == 130
Opcode_V_SUB == 131
Opcode_V_MUL == 132
Opcode_V_DIV == 133
Opcode_V_CMP == 134
Opcode_V_DOT == 135
Opcode_V_NORM == 136
Opcode_V_MAX == 137
Opcode_V_MIN == 138
Opcode_V_SUM == 139
Opcode_V_AVG == 140
Opcode_V_SCALE == 141
Opcode_V_COPY == 142
Opcode_V_SET == 143

\* The values of the Opcode enumeration: Opcode(x) raises ValueError for any
\* other byte.
Opcode ==
    {Opcode_PUSH, Opcode_POP, Opcode_DUP, Opcode_SWAP,
     Opcode_DROP, Opcode_ADD, Opcode_SUB, Opcode_MUL,
     Opcode_DIV, Opcode_MOD, Opcode_NEG, Opcode_AND,
     Opcode_OR, Opcode_XOR, Opcode_NOT, Opcode_EQ,
     Opcode_NE, Opcode_LT, Opcode_LE, Opcode_GT,
     Opcode_GE, Opcode_JMP, Opcode_JZ, Opcode_JNZ,
     Opcode_CALL, Opcode_RET, Opcode_LOAD, Opcode_STORE,
     Opcode_LOAD_I, Opcode_LOADB, Opcode_STOREB, Opcode_IN,
     Opcode_OUT, Opcode_HALT, Opcode_NOP, Opcode_INT,
     Opcode_IRET, Opcode_V_LOAD, Opcode_V_STORE, Opcode_V_ADD,
     Opcode_V_SUB, Opcode_V_MUL, Opcode_V_DIV, Opcode_V_CMP,
     Opcode_V_DOT, Opcode_V_NORM, Opcode_V_MAX, Opcode_V_MIN,
     Opcode_V_SUM, Opcode_V_AVG, Opcode_V_SCALE, Opcode_V_COPY,
     Opcode_V_SET}

INSTRUCTION_CYCLES ==
    (Opcode_NOP :> 1) @@ (Opcode_PUSH :> 2) @@ (Opcode_POP :> 1) @@
    (Opcode_DUP :> 2) @@ (Opcode_SWAP :> 2) @@ (Opcode_DROP :> 1) @@
    (Opcode_ADD :> 3) @@ (Opcode_SUB :> 3) @@ (Opcode_MUL :> 4) @@
    (Opcode_DIV :> 6) @@ (Opcode_MOD :> 6) @@ (Opcode_NEG :> 2) @@
    (Opcode_AND :> 2) @@ (Opcode_OR :> 2) @@ (Opcode_XOR :> 2) @@
    (Opcode_NOT :> 2) @@ (Opcode_EQ :> 3) @@ (Opcode_NE :> 3) @@
    (Opcode_LT :> 3) @@ (Opcode_LE :> 3) @@ (Opcode_GT :> 3) @@
    (Opcode_GE :> 3) @@ (Opcode_JMP :> 2) @@ (Opcode_JZ :> 3) @@
    (Opcode_JNZ :> 3) @@ (Opcode_CALL :> 4) @@ (Opcode_RET :> 3) @@
    (Opcode_LOAD :> 4) @@ (Opcode_STORE :> 4) @@ (Opcode_LOAD_I :> 4) @@
    (Opcode_LOADB :> 4) @@ (Opcode_STOREB :> 4) @@ (Opcode_IN :> 5) @@
    (Opcode_OUT :> 5) @@ (Opcode_HALT :> 1) @@ (Opcode_INT :> 8) @@
    (Opcode_IRET :> 6) @@ (Opcode_V_LOAD :> 8) @@ (Opcode_V_STORE :> 8) @@
    (Opcode_V_ADD :> 4) @@ (Opcode_V_SUB :> 4) @@ (Opcode_V_MUL :> 6) @@
    (Opcode_V_DIV :> 12) @@ (Opcode_V_CMP :> 4) @@ (Opcode_V_DOT :> 8) @@
    (Opcode_V_NORM :> 10) @@ (Opcode_V_MAX :> 4) @@ (Opcode_V_MIN :> 4) @@
    (Opcode_V_SUM :> 4) @@ (Opcode_V_AVG :> 6) @@ (Opcode_V_SCALE :> 4) @@
    (Opcode_V_COPY :> 4) @@ (Opcode_V_SET :> 2)

\* INSTRUCTION_CYCLES.get(op, 1)
CyclesOf(op) == IF op \in DOMAIN INSTRUCTION_CYCLES THEN INSTRUCTION_CYCLES[op] ELSE 1


\* ----------------------------------------------------------------------
\* Processor state (StackProcessor.__init__, IOController.__init__)
\* ----------------------------------------------------------------------

\* Optional values: None is the empty sequence, a value x is <<x>>.
None == <<>>

Some(x) == <<x>>

Instruction(opcode, operand) == [opcode |-> opcode, operand |-> operand]

RUNNING == "running"

HALTED == "halted"

\* InterruptType.INPUT_READY.value
INPUT_READY == 0

IOController ==
    [input_buffer       |-> <<>>,
     output_buffer      |-> <<>>,
     interrupt_schedule |-> <<>>,
     current_cycle      |-> 0,
     ports              |-> <<>>]

VectorProcessor == [r \in 0..7 |-> <<>>]

StackProcessor(data_memory_size, stack_size) ==
    [instruction_memory  |-> <<>>,
     data_memory         |-> [a \in 0..(data_memory_size - 1) |-> 0],
     stack               |-> <<>>,
     stack_size          |-> stack_size,
     call_stack          |-> <<>>,
     pc                  |-> <<0, 0>>,
     state               |-> RUNNING,
     cycle_count         |-> 0,
     instruction_count   |-> 0,
     input_buffer        |-> <<>>,
     output_buffer       |-> <<>>,
     vector_unit         |-> VectorProcessor,
     execution_log       |-> <<>>,
     current_instruction |-> None,
     remaining_cycles    |-> 0,
     io_controller       |-> IOController,
     interrupts_enabled  |-> FALSE,
     in_interrupt        |-> FALSE,
     interrupt_handlers  |-> <<>>,
     pending_interrupts  |-> <<>>]

load_program(p, instructions) ==
    [p EXCEPT !.instruction_memory = instructions, !.pc = <<0, 0>>]

\* load_data at offset 0, for data that fits (anything longer raises).
load_data(p, data) ==
    [p EXCEPT !.data_memory =
        [a \in DOMAIN p.data_memory |->
            IF a < Len(data) THEN data[a + 1] ELSE p.data_memory[a]]]

MemSize(p) == Cardinality(DOMAIN p.data_memory)

\* ----------------------------------------------------------------------
\* Stack and memory primitives
\* ----------------------------------------------------------------------

\* push with the capacity test off by one (> for >=).
push_OffByOne(p, value) ==
    IF Len(p.stack) > p.stack_size
    THEN [ok |-> FALSE, vm |-> p]
    ELSE [ok |-> TRUE, vm |-> [p EXCEPT !.stack = Append(@, Mask32(value))]]

\* push without the mask.
push_NoMask(p, value) ==
    IF Len(p.stack) >= p.stack_size
    THEN [ok |-> FALSE, vm |-> p]
    ELSE [ok |-> TRUE, vm |-> [p EXCEPT !.stack = Append(@, value)]]

\* StackProcessor.push: ok is FALSE when ProcessorError is raised.
push(p, value) ==
    IF Len(p.stack) >= p.stack_size
    THEN [ok |-> FALSE, vm |-> p]
    ELSE [ok |-> TRUE, vm |-> [p EXCEPT !.stack = Append(@, Mask32(value))]]

\* StackProcessor.pop
pop(p) ==
    IF p.stack = <<>>
    THEN [ok |-> FALSE, vm |-> p, val |-> <<0, 0>>]
    ELSE [ok  |-> TRUE,
          vm  |-> [p EXCEPT !.stack = SubSeq(@, 1, Len(@) - 1)],
          val |-> p.stack[Len(p.stack)]]

\* not (address < 0 or address + n > len(data_memory))
AddressOk(p, address, n) ==
    /\ ~IntLess(address, <<0, 0>>)
    /\ IntLeq(IntAdd(address, IntOf(n)), IntOf(MemSize(p)))

\* struct.unpack('<I', data_memory[a:a+4]) for a valid address
UnpackWord(mem, a) ==
    <<(mem[a + 3] * 256) + mem[a + 2], (mem[a + 1] * 256) + mem[a]>>

\* struct.pack('>I', value): the four bytes, highest first.
PackWord_BigEndian(value) ==
    <<value[1] \div 256, value[1] % 256, value[2] \div 256, value[2] % 256>>

\* struct.pack('<I', value): the four bytes, lowest first
PackWord(value) ==
    <<value[2] % 256, value[2] \div 256, value[1] % 256, value[1] \div 256>>

\* StackProcessor.read_memory_word
read_memory_word(p, address) ==
    IF ~AddressOk(p, address, 4)
    THEN [ok |-> FALSE, val |-> <<0, 0>>]
    ELSE [ok |-> TRUE, val |-> UnpackWord(p.data_memory, address[2])]

\* StackProcessor.write_memory_word
write_memory_word(p, address, value) ==
    IF ~AddressOk(p, address, 4)
    THEN [ok |-> FALSE, vm |-> p]
    ELSE [ok |-> TRUE,
          vm |-> [p EXCEPT !.data_memory =
                    [a \in DOMAIN @ |->
                        IF a >= address[2] /\ a < address[2] + 4
                        THEN PackWord(value)[a - address[2] + 1]
                        ELSE @[a]]]]

\* ----------------------------------------------------------------------
\* Instruction semantics (StackProcessor.execute_instruction)
\* ----------------------------------------------------------------------

\* How the body of execute_instruction leaves the try block:
\*   "next"   falls through to  self.pc += 1; return True
\*   "true"   return True  (PC already set)
\*   "false"  return False
\*   "raise"  ProcessorError, caught at the end of the function
\* fault names the error raised ("none" when there is none).
Fall(q) == [vm |-> q, out |-> "next", fault |-> "none"]

\* A taken branch that still reaches "self.pc += 1".
Taken_Increment(q) == [vm |-> q, out |-> "next", fault |-> "none"]

Taken(q) == [vm |-> q, out |-> "true", fault |-> "none"]

Stop(q) == [vm |-> q, out |-> "false", fault |-> "none"]

Raise(q, kind) == [vm |-> q, out |-> "raise", fault |-> kind]

\* StackProcessor.log_execution
LogLimit == 1000

LogKeep == 500

log_execution(p, instruction) ==
    LET entry == [kind    |-> "instr",
                  cycle   |-> p.cycle_count,
                  pc      |-> p.pc,
                  opcode  |-> instruction.opcode,
                  operand |-> instruction.operand,
                  depth   |-> Len(p.stack),
                  tos     |-> IF p.stack = <<>> THEN None
                              ELSE Some(p.stack[Len(p.stack)])]
        log   == Append(p.execution_log, entry)
    IN  [p EXCEPT !.execution_log =
            IF Len(log) > LogLimit
            THEN SubSeq(log, Len(log) - LogKeep + 1, Len(log))
            ELSE log]

\* push(value) as a whole statement
PushStmt(p, value) ==
    LET r == push(p, value)
    IN  IF r.ok THEN Fall(r.vm) ELSE Raise(r.vm, "overflow")

Ok(v) == [ok |-> TRUE, val |-> v]

Bool(b) == Ok(IF b THEN <<0, 1>> ELSE <<0, 0>>)

AddF(a, b) == Ok(Mask32(IntAdd(a, b)))

\* SUB with the top of the stack as the first argument.
SubF_Swapped(a, b) == Ok(Mask32(IntSub(b, a)))

SubF(a, b) == Ok(Mask32(IntSub(a, b)))

MulF(a, b) == Ok(WordMul(a, b))

DivF(a, b) ==
    IF b = <<0, 0>> THEN [ok |-> FALSE, val |-> <<0, 0>>]
    ELSE Ok(Mask32(WordDiv(a, b)))

ModF(a, b) ==
    IF b = <<0, 0>> THEN [ok |-> FALSE, val |-> <<0, 0>>]
    ELSE Ok(Mask32(WordMod(a, b)))

AndF(a, b) == Ok(WordAnd(a, b))

OrF(a, b) == Ok(WordOr(a, b))

EqF(a, b) == Bool(a = b)

NeF(a, b) == Bool(a # b)

LtF(a, b) == Bool(IntLess(a, b))

LeF(a, b) == Bool(IntLeq(a, b))

GtF(a, b) == Bool(IntLess(b, a))

\* GE that is false for equal operands.
GeF_Strict(a, b) == Bool(IntLess(b, a))

GeF(a, b) == Bool(IntLeq(b, a))

\* The value a binary instruction computes from a and b (ok is FALSE when
\* it raises instead).
BinaryValue(opcode, a, b) ==
    CASE opcode = Opcode_ADD -> AddF(a, b)
      [] opcode = Opcode_SUB -> SubF(a, b)
      [] opcode = Opcode_MUL -> MulF(a, b)
      [] opcode = Opcode_DIV -> DivF(a, b)
      [] opcode = Opcode_MOD -> ModF(a, b)
      [] opcode = Opcode_AND -> AndF(a, b)
      [] opcode = Opcode_OR  -> OrF(a, b)
      [] opcode = Opcode_EQ  -> EqF(a, b)
      [] opcode = Opcode_NE  -> NeF(a, b)
      [] opcode = Opcode_LT  -> LtF(a, b)
      [] opcode = Opcode_LE  -> LeF(a, b)
      [] opcode = Opcode_GT  -> GtF(a, b)
      [] opcode = Opcode_GE  -> GeF(a, b)

BinaryOpcodes ==
    {Opcode_ADD, Opcode_SUB, Opcode_MUL, Opcode_DIV, Opcode_MOD, Opcode_AND,
     Opcode_OR, Opcode_EQ, Opcode_NE, Opcode_LT, Opcode_LE, Opcode_GT, Opcode_GE}

\* b = pop(); a = pop(); push(the value), where computing it may raise
Binary(p, opcode) ==
    LET rb == pop(p)
        ra == pop(rb.vm)
        f  == BinaryValue(opcode, ra.val, rb.val)
    IN  IF ~rb.ok THEN Raise(rb.vm, "underflow")
        ELSE IF ~ra.ok THEN Raise(ra.vm, "underflow")
        ELSE IF ~f.ok THEN Raise(ra.vm, "divzero")
        ELSE PushStmt(ra.vm, f.val)

ExecDUP(p) ==
    IF p.stack # <<>> THEN PushStmt(p, p.stack[Len(p.stack)])
    ELSE Raise(p, "empty")

\* pop a, pop b, push a, push b: the pushes cannot fail after two pops
ExecSWAP(p) ==
    LET n == Len(p.stack)
    IN  IF n >= 2
        THEN Fall([p EXCEPT !.stack =
                     SubSeq(@, 1, n - 2) \o <<Mask32(@[n]), Mask32(@[n - 1])>>])
        ELSE Raise(p, "params")

ExecNOT(p) ==
    LET ra == pop(p)
    IN  IF ~ra.ok THEN Raise(ra.vm, "underflow")
        ELSE PushStmt(ra.vm, Mask32(WordNot(ra.val)))

\* JZ when zero is TRUE, JNZ when zero is FALSE
ExecBranch(p, operand, zero) ==
    LET rc == pop(p)
    IN  IF ~rc.ok THEN Raise(rc.vm, "underflow")
        ELSE IF (rc.val = <<0, 0>>) = zero
             THEN Taken([rc.vm EXCEPT !.pc = IntOf(operand)])
             ELSE Fall(rc.vm)

\* CALL that saves its own address as the return address.
ExecCALL_ReturnToSelf(p, operand) ==
    Taken([p EXCEPT !.call_stack = Append(@, p.pc), !.pc = IntOf(operand)])

ExecCALL(p, operand) ==
    Taken([p EXCEPT !.call_stack = Append(@, IntAdd(p.pc, <<0, 1>>)),
                    !.pc = IntOf(operand)])

ExecRET(p) ==
    IF p.call_stack # <<>>
    THEN Taken([p EXCEPT !.pc = p.call_stack[Len(p.call_stack)],
                         !.call_stack = SubSeq(@, 1, Len(@) - 1)])
    ELSE Stop([p EXCEPT !.state = HALTED])

ExecLOAD(p) ==
    LET ra == pop(p)
        rv == read_memory_word(ra.vm, ra.val)
    IN  IF ~ra.ok THEN Raise(ra.vm, "underflow")
        ELSE IF ~rv.ok THEN Raise(ra.vm, "memory")
        ELSE PushStmt(ra.vm, rv.val)

ExecLOADB(p) ==
    LET ra == pop(p)
    IN  IF ~ra.ok THEN Raise(ra.vm, "underflow")
        ELSE IF ~AddressOk(ra.vm, ra.val, 1) THEN Raise(ra.vm, "memory")
        ELSE PushStmt(ra.vm, <<0, ra.vm.data_memory[ra.val[2]]>>)

ExecSTORE(p) ==
    LET ra == pop(p)
        rv == pop(ra.vm)
        w  == write_memory_word(rv.vm, ra.val, rv.val)
    IN  IF ~ra.ok THEN Raise(ra.vm, "underflow")
        ELSE IF ~rv.ok THEN Raise(rv.vm, "underflow")
        ELSE IF ~w.ok THEN Raise(rv.vm, "memory")
        ELSE Fall(w.vm)

ExecSTOREB(p) ==
    LET ra == pop(p)
        rv == pop(ra.vm)
    IN  IF ~ra.ok THEN Raise(ra.vm, "underflow")
        ELSE IF ~rv.ok THEN Raise(rv.vm, "underflow")
        ELSE IF ~AddressOk(rv.vm, ra.val, 1) THEN Raise(rv.vm, "memory")
        ELSE Fall([rv.vm EXCEPT !.data_memory[ra.val[2]] = MaskFF(rv.val)])

\* IN that leaves the value read in the input buffer.
ExecIN_Peek(p) ==
    IF p.input_buffer # <<>>
    THEN PushStmt(p, Head(p.input_buffer))
    ELSE PushStmt(p, <<0, 0>>)

\* IN: the operand (port) is not read
ExecIN(p) ==
    IF p.input_buffer # <<>>
    THEN PushStmt([p EXCEPT !.input_buffer = Tail(@)], Head(p.input_buffer))
    ELSE PushStmt(p, <<0, 0>>)

\* The bytes from addr up to the first zero byte or the end of memory.
RECURSIVE CString(_, _)
CString(mem, addr) ==
    IF addr \notin DOMAIN mem \/ mem[addr] = 0 THEN <<>>
    ELSE <<<<0, mem[addr]>>>> \o CString(mem, addr + 1)

\* The ASCII codes of str(value), as output values
DigitValues(value) == [i \in DOMAIN Digits(value) |-> <<0, Digits(value)[i]>>]

\* OUT that appends the popped word whatever the port, as
\* IOController.write_port does for port 1.
ExecOUT_Raw(p, operand) ==
    LET rv == pop(p)
    IN  IF ~rv.ok THEN Raise(rv.vm, "underflow")
        ELSE Fall([rv.vm EXCEPT !.output_buffer = Append(@, rv.val)])

ExecOUT(p, operand) ==
    LET rv == pop(p)
        q  == rv.vm
        v  == rv.val
        ob == q.output_buffer
    IN  IF ~rv.ok THEN Raise(q, "underflow")
        ELSE IF operand = 1
             THEN IF ~IntLess(v, <<0, 0>>) /\ IntLess(v, IntOf(MemSize(q)))
                  THEN Fall([q EXCEPT !.output_buffer =
                                ob \o CString(q.data_memory, v[2])])
                  ELSE Fall([q EXCEPT !.output_buffer = ob \o DigitValues(v)])
        ELSE IF operand = 0
             THEN Fall([q EXCEPT !.output_buffer = ob \o DigitValues(v)])
        ELSE IF operand = 2
             THEN Fall([q EXCEPT !.output_buffer = Append(ob, <<0, MaskFF(v)>>)])
        ELSE Fall([q EXCEPT !.output_buffer = Append(ob, v)])

ExecIRET(p) ==
    IF p.call_stack # <<>>
    THEN Taken([p EXCEPT !.pc = p.call_stack[Len(p.call_stack)],
                         !.call_stack = SubSeq(@, 1, Len(@) - 1),
                         !.in_interrupt = FALSE])
    ELSE Raise(p, "iret")

\* ----------------------------------------------------------------------
\* Vector unit (VectorProcessor) and the vector instructions
\* ----------------------------------------------------------------------

max_vector_length == 16

Min(a, b) == IF a < b THEN a ELSE b

\* 0 <= reg_id < len(vector_registers)
RegOk(vu, reg) == ~IntLess(reg, <<0, 0>>) /\ IntLess(reg, IntOf(Cardinality(DOMAIN vu)))

load_vector(vu, reg_id, elements) ==
    IF RegOk(vu, reg_id)
    THEN [vu EXCEPT ![reg_id[2]] =
             SubSeq(elements, 1, Min(Len(elements), max_vector_length))]
    ELSE vu

get_vector(vu, reg_id) == IF RegOk(vu, reg_id) THEN vu[reg_id[2]] ELSE <<>>

\* result[i] = vec1[i] op vec2[i], masked, for i < min(len(vec1), len(vec2))
Zip(opcode, vec1, vec2) ==
    [i \in 1..Min(Len(vec1), Len(vec2)) |->
        BinaryValue(opcode, vec1[i], vec2[i]).val]

vector_add(vu, reg1, reg2, result_reg) ==
    load_vector(vu, result_reg, Zip(Opcode_ADD, get_vector(vu, reg1), get_vector(vu, reg2)))

vector_sub(vu, reg1, reg2, result_reg) ==
    load_vector(vu, result_reg, Zip(Opcode_SUB, get_vector(vu, reg1), get_vector(vu, reg2)))

vector_mul(vu, reg1, reg2, result_reg) ==
    load_vector(vu, result_reg, Zip(Opcode_MUL, get_vector(vu, reg1), get_vector(vu, reg2)))

\* sum(vec), as an unbounded integer
RECURSIVE SumInt(_)
SumInt(vec) ==
    IF vec = <<>> THEN <<0, 0>>
    ELSE IntAdd(SumInt(SubSeq(vec, 1, Len(vec) - 1)), vec[Len(vec)])

\* The sum of the products is taken modulo 2^32, as is every product.
vector_dot(vu, reg1, reg2) ==
    Mask32(SumInt(Zip(Opcode_MUL, get_vector(vu, reg1), get_vector(vu, reg2))))

\* int(sum_squares ** 0.5), for vectors whose sum of squares is below 2^31
\* (elements below 2^13); the floating-point root is exact there.
vector_norm(vu, reg) ==
    LET vec == get_vector(vu, reg)
        sq  == [i \in DOMAIN vec |-> <<0, vec[i][2] * vec[i][2]>>]
        s   == SumInt(sq)
        n   == (s[1] * Limb) + s[2]
    IN  IntOf(CHOOSE r \in 0..46340 : r * r <= n /\ n < (r + 1) * (r + 1))

vector_max(vu, reg) ==
    LET vec == get_vector(vu, reg)
    IN  IF vec = <<>> THEN <<0, 0>>
        ELSE vec[CHOOSE i \in DOMAIN vec : \A j \in DOMAIN vec : IntLeq(vec[j], vec[i])]

vector_min(vu, reg) ==
    LET vec == get_vector(vu, reg)
    IN  IF vec = <<>> THEN <<0, 0>>
        ELSE vec[CHOOSE i \in DOMAIN vec : \A j \in DOMAIN vec : IntLeq(vec[i], vec[j])]

vector_sum(vu, reg) == Mask32(SumInt(get_vector(vu, reg)))

\* x // n for a non-negative x and 1 <= n <= 16
FloorDivSmall(x, n) ==
    LET r == ((x[1] % n) * Limb) + x[2]
    IN  IntAdd(<<x[1] \div n, 0>>, IntOf(r \div n))

vector_avg(vu, reg) ==
    LET vec == get_vector(vu, reg)
    IN  IF vec = <<>> THEN <<0, 0>>
        ELSE Mask32(FloorDivSmall(SumInt(vec), Len(vec)))

vector_scale(vu, reg, scalar, result_reg) ==
    LET vec == get_vector(vu, reg)
    IN  load_vector(vu, result_reg, [i \in DOMAIN vec |-> WordMul(vec[i], scalar)])

vector_copy(vu, src_reg, dst_reg) == load_vector(vu, dst_reg, get_vector(vu, src_reg))

\* index is an instruction operand (0 .. 2^24 - 1), counted from 0
vector_set(vu, reg, index, value) ==
    IF RegOk(vu, reg) /\ index >= 0 /\ index < Len(vu[reg[2]])
    THEN [vu EXCEPT ![reg[2]][index + 1] = Mask32(value)]
    ELSE vu

\* "if len(self.stack) >= k: pop k values ... else: raise": the values popped,
\* last popped first in the source, are args[1..k] from the deepest up.
PopArgs(p, k) ==
    LET n == Len(p.stack)
    IN  [ok   |-> n >= k,
         vm   |-> IF n >= k THEN [p EXCEPT !.stack = SubSeq(@, 1, n - k)] ELSE p,
         args |-> IF n >= k THEN SubSeq(p.stack, n - k + 1, n) ELSE <<>>]

\* The words V_LOAD reads: from address + 4, while a whole word is in memory
\* and fewer than min(length, max_vector_length) have been read.
RECURSIVE LoadElements(_, _, _, _)
LoadElements(p, base, i, count) ==
    IF i < count /\ IntLess(IntAdd(base, IntOf((i * 4) + 3)), IntOf(MemSize(p)))
    THEN <<read_memory_word(p, IntAdd(base, IntOf(i * 4))).val>>
            \o LoadElements(p, base, i + 1, count)
    ELSE <<>>

ExecV_LOAD(p) ==
    LET a       == PopArgs(p, 3)
        address == a.args[1]
        length  == a.args[2]
        reg     == a.args[3]
        count   == IF IntLess(length, IntOf(max_vector_length))
                   THEN length[2] ELSE max_vector_length
    IN  IF a.ok
        THEN Fall([a.vm EXCEPT !.vector_unit =
                      load_vector(@, reg,
                          LoadElements(a.vm, IntAdd(address, <<0, 4>>), 0, count))])
        ELSE Raise(p, "params")

\* The words V_STORE writes, from address, while a whole word is in memory.
RECURSIVE StoreElements(_, _, _, _)
StoreElements(p, address, vec, i) ==
    IF i < Len(vec) /\ IntLess(IntAdd(address, IntOf((i * 4) + 3)), IntOf(MemSize(p)))
    THEN StoreElements(
             write_memory_word(p, IntAdd(address, IntOf(i * 4)), vec[i + 1]).vm,
             address, vec, i + 1)
    ELSE p

ExecV_STORE(p) ==
    LET a == PopArgs(p, 2)
    IN  IF a.ok
        THEN Fall(StoreElements(a.vm, a.args[1],
                                get_vector(a.vm.vector_unit, a.args[2]), 0))
        ELSE Raise(p, "params")

\* The number of values a vector instruction takes from the stack.
VectorArgs(opcode) ==
    CASE opcode \in {Opcode_V_ADD, Opcode_V_SUB, Opcode_V_MUL, Opcode_V_SCALE,
                     Opcode_V_LOAD} -> 3
      [] opcode \in {Opcode_V_DOT, Opcode_V_COPY, Opcode_V_SET, Opcode_V_STORE} -> 2
      [] OTHER -> 1

ExecVector(p, instruction) ==
    LET opcode == instruction.opcode
        a      == PopArgs(p, VectorArgs(opcode))
        q      == a.vm
        vu     == q.vector_unit
        x      == a.args
    IN  IF opcode = Opcode_V_LOAD THEN ExecV_LOAD(p)
        ELSE IF opcode = Opcode_V_STORE THEN ExecV_STORE(p)
        ELSE IF ~a.ok THEN Raise(p, "params")
        ELSE
        CASE opcode = Opcode_V_ADD ->
                Fall([q EXCEPT !.vector_unit = vector_add(vu, x[1], x[2], x[3])])
          [] opcode = Opcode_V_SUB ->
                Fall([q EXCEPT !.vector_unit = vector_sub(vu, x[1], x[2], x[3])])
          [] opcode = Opcode_V_MUL ->
                Fall([q EXCEPT !.vector_unit = vector_mul(vu, x[1], x[2], x[3])])
          [] opcode = Opcode_V_SCALE ->
                Fall([q EXCEPT !.vector_unit = vector_scale(vu, x[1], x[2], x[3])])
          [] opcode = Opcode_V_COPY ->
                Fall([q EXCEPT !.vector_unit = vector_copy(vu, x[1], x[2])])
          [] opcode = Opcode_V_SET ->
                Fall([q EXCEPT !.vector_unit =
                         vector_set(vu, x[1], instruction.operand, x[2])])
          [] opcode = Opcode_V_DOT  -> PushStmt(q, vector_dot(vu, x[1], x[2]))
          [] opcode = Opcode_V_NORM -> PushStmt(q, vector_norm(vu, x[1]))
          [] opcode = Opcode_V_MAX  -> PushStmt(q, vector_max(vu, x[1]))
          [] opcode = Opcode_V_MIN  -> PushStmt(q, vector_min(vu, x[1]))
          [] opcode = Opcode_V_SUM  -> PushStmt(q, vector_sum(vu, x[1]))
          [] opcode = Opcode_V_AVG  -> PushStmt(q, vector_avg(vu, x[1]))

VectorOpcodes ==
    {Opcode_V_ADD, Opcode_V_SUB, Opcode_V_MUL, Opcode_V_DOT, Opcode_V_NORM,
     Opcode_V_MAX, Opcode_V_MIN, Opcode_V_SUM, Opcode_V_AVG, Opcode_V_SCALE,
     Opcode_V_COPY, Opcode_V_SET, Opcode_V_LOAD, Opcode_V_STORE}

\* An except clause that returns False without halting.
Finish_NoHalt(r) ==
    CASE r.out = "raise" -> [vm |-> r.vm, ret |-> FALSE, fault |-> r.fault]
      [] r.out = "next" ->
            [vm    |-> [r.vm EXCEPT !.pc = IntAdd(@, <<0, 1>>)],
             ret   |-> TRUE,
             fault |-> r.fault]
      [] r.out = "true"  -> [vm |-> r.vm, ret |-> TRUE, fault |-> r.fault]
      [] r.out = "false" -> [vm |-> r.vm, ret |-> FALSE, fault |-> r.fault]

\* The end of execute_instruction: the except clause, or PC + 1.
Finish(r) ==
    CASE r.out = "raise" ->
            [vm |-> [r.vm EXCEPT !.state = HALTED], ret |-> FALSE, fault |-> r.fault]
      [] r.out = "next" ->
            [vm    |-> [r.vm EXCEPT !.pc = IntAdd(@, <<0, 1>>)],
             ret   |-> TRUE,
             fault |-> r.fault]
      [] r.out = "true"  -> [vm |-> r.vm, ret |-> TRUE, fault |-> r.fault]
      [] r.out = "false" -> [vm |-> r.vm, ret |-> FALSE, fault |-> r.fault]

\* execute_instruction(Instruction(OUT, 1)), as vector 0 calls it.
execute_instruction_OUT(p) ==
    Finish(ExecOUT(log_execution(p, Instruction(Opcode_OUT, 1)), 1))

\* The statement after a nested execute_instruction returned n: its value
\* is dropped and the branch falls through.
Nested(n) == [vm |-> n.vm, out |-> "next", fault |-> n.fault]

\* StackProcessor.handle_software_interrupt.  Vector 0 calls
\* execute_instruction(Instruction(OUT, 1)) as a whole: its log line, its
\* semantics, its own except clause and its own PC + 1.
\* Vector 0x81 as a switch: the second call turns the flag off again.
handle_software_interrupt_Toggle(p, vector) ==
    CASE vector = 128 ->
            IF Len(p.stack) >= 2
            THEN LET n == Len(p.stack)
                 IN  Fall([p EXCEPT !.stack = SubSeq(@, 1, n - 2),
                                    !.interrupt_handlers =
                                        (p.stack[n - 1] :> p.stack[n]) @@ @])
            ELSE Raise(p, "params")
      [] vector = 129 -> Fall([p EXCEPT !.interrupts_enabled = ~@])
      [] vector = 130 -> Fall([p EXCEPT !.interrupts_enabled = FALSE])
      [] vector = 0 ->
            IF p.stack # <<>>
            THEN Nested(execute_instruction_OUT(pop(p).vm))
            ELSE Fall(p)
      [] vector = 1 -> PushStmt(p, <<0, 0>>)
      [] OTHER -> Fall(p)

handle_software_interrupt(p, vector) ==
    CASE vector = 128 ->
            IF Len(p.stack) >= 2
            THEN LET n == Len(p.stack)
                 IN  Fall([p EXCEPT !.stack = SubSeq(@, 1, n - 2),
                                    !.interrupt_handlers =
                                        (p.stack[n - 1] :> p.stack[n]) @@ @])
            ELSE Raise(p, "params")
      [] vector = 129 -> Fall([p EXCEPT !.interrupts_enabled = TRUE])
      [] vector = 130 -> Fall([p EXCEPT !.interrupts_enabled = FALSE])
      [] vector = 0 ->
            IF p.stack # <<>>
            THEN Nested(execute_instruction_OUT(pop(p).vm))
            ELSE Fall(p)
      [] vector = 1 -> PushStmt(p, <<0, 0>>)
      [] OTHER -> Fall(p)

\* The try block of execute_instruction, by opcode.  Opcodes the chain of
\* elif branches does not name (NEG, XOR, DROP, NOP, LOAD_I, V_DIV, V_CMP and
\* every byte outside the enumeration) reach the final else.
ExecBody(p, instruction) ==
    LET opcode  == instruction.opcode
        operand == instruction.operand
    IN  CASE opcode = Opcode_HALT   -> Stop([p EXCEPT !.state = HALTED])
          [] opcode = Opcode_PUSH   -> PushStmt(p, IntOf(operand))
          [] opcode = Opcode_POP    ->
                LET r == pop(p)
                IN  IF r.ok THEN Fall(r.vm) ELSE Raise(r.vm, "underflow")
          [] opcode = Opcode_DUP    -> ExecDUP(p)
          [] opcode = Opcode_SWAP   -> ExecSWAP(p)
          [] opcode \in BinaryOpcodes -> Binary(p, opcode)
          [] opcode = Opcode_NOT    -> ExecNOT(p)
          [] opcode = Opcode_JMP    -> Taken([p EXCEPT !.pc = IntOf(operand)])
          [] opcode = Opcode_JZ     -> ExecBranch(p, operand, TRUE)
          [] opcode = Opcode_JNZ    -> ExecBranch(p, operand, FALSE)
          [] opcode = Opcode_CALL   -> ExecCALL(p, operand)
          [] opcode = Opcode_RET    -> ExecRET(p)
          [] opcode = Opcode_LOAD   -> ExecLOAD(p)
          [] opcode = Opcode_LOADB  -> ExecLOADB(p)
          [] opcode = Opcode_STORE  -> ExecSTORE(p)
          [] opcode = Opcode_STOREB -> ExecSTOREB(p)
          [] opcode = Opcode_IN     -> ExecIN(p)
          [] opcode = Opcode_OUT    -> ExecOUT(p, operand)
          [] opcode = Opcode_INT    -> handle_software_interrupt(p, operand)
          [] opcode = Opcode_IRET   -> ExecIRET(p)
          [] opcode \in VectorOpcodes -> ExecVector(p, instruction)
          [] OTHER                  -> Raise(p, "unknown")

execute_instruction(p, instruction) ==
    Finish(ExecBody(log_execution(p, instruction), instruction))

\* ----------------------------------------------------------------------
\* Scheduled input (IOController.schedule_input, IOController.update)
\* ----------------------------------------------------------------------

\* Python's order on the tuples (cycle, type, data).  The field id is not
\* part of the tuple: it numbers the schedule_input calls, so that claims
\* can speak of the order of the calls.
TupleLess(e, f) ==
    \/ e.cycle < f.cycle
    \/ e.cycle = f.cycle /\ e.type < f.type
    \/ e.cycle = f.cycle /\ e.type = f.type /\ IntLess(e.data, f.data)

\* list.sort() is stable: an element goes after the elements not greater
\* than it that stood before it.
RECURSIVE InsertSorted(_, _)
InsertSorted(s, e) ==
    IF s = <<>> THEN <<e>>
    ELSE IF TupleLess(e, s[Len(s)])
         THEN Append(InsertSorted(SubSeq(s, 1, Len(s) - 1), e), s[Len(s)])
         ELSE Append(s, e)

RECURSIVE Sort(_)
Sort(s) ==
    IF s = <<>> THEN <<>>
    ELSE InsertSorted(Sort(SubSeq(s, 1, Len(s) - 1)), s[Len(s)])

\* IOController.schedule_input
schedule_input(io, cycle, data, id) ==
    [io EXCEPT !.interrupt_schedule =
        Sort(Append(@, [cycle |-> cycle, type |-> INPUT_READY,
                        data |-> data, id |-> id]))]

\* The events the while loop of update pops: the longest prefix of the
\* schedule whose cycles are <= cycle.
RECURSIVE DueCount(_, _)
DueCount(s, cycle) ==
    IF s = <<>> \/ s[1].cycle > cycle THEN 0
    ELSE 1 + DueCount(Tail(s), cycle)

\* IOController.update: the new controller and the interrupts returned.
update(io, cycle) ==
    LET n   == DueCount(io.interrupt_schedule, cycle)
        due == SubSeq(io.interrupt_schedule, 1, n)
        inp == SelectSeq(due, LAMBDA e : e.type = INPUT_READY)
    IN  [io |-> [io EXCEPT
                    !.current_cycle = cycle,
                    !.interrupt_schedule =
                        SubSeq(@, n + 1, Len(@)),
                    !.input_buffer =
                        @ \o [i \in DOMAIN inp |-> inp[i].data]],
         interrupts |-> inp]

\* StackProcessor.schedule_input_event
schedule_input_event(p, cycle, data, id) ==
    [p EXCEPT !.io_controller = schedule_input(@, cycle, data, id)]

\* ----------------------------------------------------------------------
\* One tick (StackProcessor.step)
\* ----------------------------------------------------------------------

\* What a call of step did, for the claims: the value returned, the
\* exception that left the call ("none" when it returned), the instruction
\* committed (None when none was), the ProcessorError caught while it ran
\* and the request whose handler was entered.
StepResult(q, ret, raised, committed, fault, entered) ==
    [vm |-> q, ret |-> ret, raised |-> raised, committed |-> committed,
     fault |-> fault, entered |-> entered]

\* Lines 811-815: accept the input events that are due.
AcceptInput(p) ==
    LET u == update(p.io_controller, p.cycle_count)
    IN  [p EXCEPT
            !.io_controller = u.io,
            !.input_buffer =
                @ \o [i \in DOMAIN u.interrupts |-> u.interrupts[i].data],
            !.pending_interrupts =
                @ \o [i \in DOMAIN u.interrupts |->
                        [vector |-> <<0, INPUT_READY>>,
                         data   |-> u.interrupts[i].data,
                         id     |-> u.interrupts[i].id]]]

\* The test of line 825 without "not self.in_interrupt".
CanDispatch_Nested(p) ==
    p.interrupts_enabled /\ p.pending_interrupts # <<>>

\* Line 825: may a pending request be taken now?
CanDispatch(p) ==
    p.interrupts_enabled /\ ~p.in_interrupt /\ p.pending_interrupts # <<>>

\* pop() for pop(0): the newest request first.
TakeRequest_Newest(pending) ==
    [req |-> pending[Len(pending)], rest |-> SubSeq(pending, 1, Len(pending) - 1)]

\* Line 826: the request taken, and the queue without it.
TakeRequest(pending) == [req |-> Head(pending), rest |-> Tail(pending)]

\* An entry that pushes the address after the interrupted instruction.
Dispatch_ReturnNext(p) ==
    IF CanDispatch(p)
    THEN LET t == TakeRequest(p.pending_interrupts)
             q == [p EXCEPT !.pending_interrupts = t.rest]
         IN  IF t.req.vector \in DOMAIN p.interrupt_handlers
             THEN [vm |-> [q EXCEPT
                              !.call_stack = Append(@, IntAdd(p.pc, <<0, 1>>)),
                              !.pc = p.interrupt_handlers[t.req.vector],
                              !.in_interrupt = TRUE,
                              !.execution_log =
                                  Append(@, [kind  |-> "ENTER_IRQ",
                                             cycle |-> p.cycle_count,
                                             vec   |-> t.req.vector,
                                             pc    |-> p.interrupt_handlers[t.req.vector],
                                             id    |-> t.req.id])],
                   entered |-> Some(t.req.id)]
             ELSE [vm |-> q, entered |-> None]
    ELSE [vm |-> p, entered |-> None]

\* An entry that leaves a request without a handler at the head of the
\* queue.
Dispatch_KeepRequest(p) ==
    IF CanDispatch(p)
    THEN LET t == TakeRequest(p.pending_interrupts)
             q == [p EXCEPT !.pending_interrupts = t.rest]
         IN  IF t.req.vector \in DOMAIN p.interrupt_handlers
             THEN [vm |-> [q EXCEPT
                              !.call_stack = Append(@, p.pc),
                              !.pc = p.interrupt_handlers[t.req.vector],
                              !.in_interrupt = TRUE,
                              !.execution_log =
                                  Append(@, [kind  |-> "ENTER_IRQ",
                                             cycle |-> p.cycle_count,
                                             vec   |-> t.req.vector,
                                             pc    |-> p.interrupt_handlers[t.req.vector],
                                             id    |-> t.req.id])],
                   entered |-> Some(t.req.id)]
             ELSE [vm |-> p, entered |-> None]
    ELSE [vm |-> p, entered |-> None]

\* Lines 825-834: the interrupt entry between two instructions.
Dispatch(p) ==
    IF CanDispatch(p)
    THEN LET t == TakeRequest(p.pending_interrupts)
             q == [p EXCEPT !.pending_interrupts = t.rest]
         IN  IF t.req.vector \in DOMAIN p.interrupt_handlers
             THEN [vm |-> [q EXCEPT
                              !.call_stack = Append(@, p.pc),
                              !.pc = p.interrupt_handlers[t.req.vector],
                              !.in_interrupt = TRUE,
                              !.execution_log =
                                  Append(@, [kind  |-> "ENTER_IRQ",
                                             cycle |-> p.cycle_count,
                                             vec   |-> t.req.vector,
                                             pc    |-> p.interrupt_handlers[t.req.vector],
                                             id    |-> t.req.id])],
                   entered |-> Some(t.req.id)]
             ELSE [vm |-> q, entered |-> None]
    ELSE [vm |-> p, entered |-> None]

\* pc >= len(instruction_memory).  PC is never negative, so this is also
\* when instruction_memory[pc] raises IndexError.
PcPastEnd(p) == ~IntLess(p.pc, IntOf(Len(p.instruction_memory)))

\* A commit one tick late (remaining_cycles < 0 for == 0).
Commits_Late(p) == p.remaining_cycles - 1 < 0 /\ p.current_instruction # None

\* Lines 839-853: the tick proper, and the commit on the last tick.
Commits(p) == p.remaining_cycles - 1 = 0 /\ p.current_instruction # None

\* A count of the instructions after which execution continues: HALT and
\* a faulting instruction are left out.
Committed_HaltUncounted(r, instruction, entered) ==
    StepResult([r.vm EXCEPT !.instruction_count = IF r.ret THEN @ + 1 ELSE @],
               r.ret, "none", Some(instruction), r.fault, entered)

\* Lines 849-850: after execute_instruction returned r.
Committed(r, instruction, entered) ==
    StepResult([r.vm EXCEPT !.instruction_count = @ + 1],
               r.ret, "none", Some(instruction), r.fault, entered)

Tick(p, entered) ==
    LET q == [p EXCEPT !.remaining_cycles = @ - 1, !.cycle_count = @ + 1]
    IN  IF Commits(p)
        THEN Committed(execute_instruction(
                           [q EXCEPT !.current_instruction = None,
                                     !.remaining_cycles = 0],
                           p.current_instruction[1]),
                       p.current_instruction[1], entered)
        ELSE StepResult(q, TRUE, "none", None, "none", entered)

\* Lines 823-837: dispatch, fetch and decode.  instruction_memory[pc] raises
\* IndexError when the handler address is outside the program, and
\* Opcode(opcode) raises ValueError for a byte outside the enumeration,
\* after current_instruction has been assigned.
FetchAndTick(p) ==
    LET d == Dispatch(p)
        q == d.vm
    IN  IF PcPastEnd(q)
        THEN StepResult(q, FALSE, "IndexError", None, "none", d.entered)
        ELSE LET instruction == q.instruction_memory[q.pc[2] + 1]
                 f == [q EXCEPT !.current_instruction = Some(instruction)]
             IN  IF instruction.opcode \notin Opcode
                 THEN StepResult(f, FALSE, "ValueError", None, "none", d.entered)
                 ELSE Tick([f EXCEPT !.remaining_cycles =
                                        CyclesOf(instruction.opcode)],
                           d.entered)

\* Lines 810-853: step on a processor that is not HALTED.
StepRunning(p) ==
    LET q == AcceptInput(p)
    IN  IF q.current_instruction = None /\ PcPastEnd(q)
        THEN StepResult([q EXCEPT !.state = HALTED], FALSE, "none",
                        None, "none", None)
        ELSE IF q.current_instruction = None
             THEN FetchAndTick(q)
             ELSE Tick(q, None)

\* step without the test of line 807.
step_NoHaltTest(p) == StepRunning(p)

step(p) ==
    IF p.state = HALTED
    THEN StepResult(p, FALSE, "none", None, "none", None)
    ELSE StepRunning(p)

\* The dictionary run returns.
RunResult(p, start_cycle) ==
    [state                 |-> p.state,
     instructions_executed |-> p.instruction_count,
     cycles_executed       |-> p.cycle_count - start_cycle,
     final_pc              |-> p.pc,
     stack_size            |-> Len(p.stack),
     output                |-> p.output_buffer,
     execution_log         |-> p.execution_log]

\* ----------------------------------------------------------------------
\* Instructions in the binary file (isa/machine_code.py)
\* ----------------------------------------------------------------------

\* Instruction.to_bytes: struct.pack('<I', (operand << 8) | opcode), for an
\* operand below 2^24.
to_bytes(instruction) ==
    PackWord(WordOr(<<instruction.operand \div 256,
                      (instruction.operand % 256) * 256>>,
                    IntOf(instruction.opcode)))

\* A decoder that keeps 16 bits of the operand.
from_bytes_Mask16(data) ==
    Instruction(MaskFF(UnpackWord(data, 1)),
                ((UnpackWord(data, 1)[1] * 256) + (UnpackWord(data, 1)[2] \div 256))
                    % Limb)

\* Instruction.from_bytes: word & 0xFF and (word >> 8) & 0xFFFFFF
from_bytes(data) ==
    Instruction(MaskFF(UnpackWord(data, 1)),
                ((UnpackWord(data, 1)[1] * 256) + (UnpackWord(data, 1)[2] \div 256))
                    % (256 * Limb))

\* ----------------------------------------------------------------------
\* The code generator (lang/codegen.py)
\*
\* A node of the syntax tree is a record with the fields of its class in
\* lang/ast_nodes.py and the class name in the field kind; an optional
\* field holds None or Some(node); a string literal is the sequence of its
\* bytes.  The generator g holds the instructions and the data memory of
\* the MachineCode under construction, the scopes, functions and strings of
\* the SymbolTable, and in error the CodeGenError raised, "none" before:
\* after an error nothing more is emitted.
\* ----------------------------------------------------------------------

\* CodeGenerator.__init__
CodeGenerator ==
    [instructions |-> <<>>, data_memory |-> <<>>, scopes |-> <<<<>>>>,
     functions |-> <<>>, strings |-> <<>>, error |-> "none"]

\* raise CodeGenError
CodeGenError(g, kind) == IF g.error = "none" THEN [g EXCEPT !.error = kind] ELSE g

\* CodeGenerator._emit
emit(g, opcode, operand) ==
    IF g.error # "none" THEN g
    ELSE [g EXCEPT !.instructions = Append(@, Instruction(opcode, operand))]

\* CodeGenerator._emit, for each instruction of a list
emit_all(g, instructions) ==
    IF g.error # "none" THEN g
    ELSE [g EXCEPT !.instructions = @ \o instructions]

\* CodeGenerator._patch_address
patch_address(g, instruction_addr, target_addr) ==
    IF g.error # "none" THEN g
    ELSE [g EXCEPT !.instructions[instruction_addr + 1].operand = target_addr]

\* MachineCode.add_data (the address returned is the length before)
add_data(g, data) ==
    IF g.error # "none" THEN g ELSE [g EXCEPT !.data_memory = @ \o data]

\* A lookup that searches the scopes from the outermost one.
RECURSIVE get_Outermost(_, _)
get_Outermost(scopes, name) ==
    IF scopes = <<>> THEN None
    ELSE IF name \in DOMAIN scopes[1]
         THEN Some(scopes[1][name])
         ELSE get_Outermost(Tail(scopes), name)

\* SymbolTable.get: the binding of the innermost scope that has the name,
\* None when no scope has it (SymbolTable.exists is False).
RECURSIVE get(_, _)
get(scopes, name) ==
    IF scopes = <<>> THEN None
    ELSE IF name \in DOMAIN scopes[Len(scopes)]
         THEN Some(scopes[Len(scopes)][name])
         ELSE get(SubSeq(scopes, 1, Len(scopes) - 1), name)

\* SymbolTable.define
define(g, name, value) ==
    IF g.error # "none" THEN g
    ELSE [g EXCEPT !.scopes[Len(g.scopes)] = (name :> value) @@ @]

\* SymbolTable.enter_scope, exit_scope
enter_scope(g) == [g EXCEPT !.scopes = Append(@, <<>>)]

exit_scope(g) ==
    IF Len(g.scopes) > 1
    THEN [g EXCEPT !.scopes = SubSeq(@, 1, Len(@) - 1)]
    ELSE g

\* An operator table in which + is translated as SUB.
op_map_PlusAsSub ==
    [x \in {"+", "-", "*", "/", "%", "==", "!=", "<", "<=", ">", ">=", "&&",
            "||", "and", "or"} |->
        CASE x = "+" -> Opcode_SUB [] x = "-" -> Opcode_SUB
          [] x = "*" -> Opcode_MUL [] x = "/" -> Opcode_DIV
          [] x = "%" -> Opcode_MOD [] x = "==" -> Opcode_EQ
          [] x = "!=" -> Opcode_NE [] x = "<" -> Opcode_LT
          [] x = "<=" -> Opcode_LE [] x = ">" -> Opcode_GT
          [] x = ">=" -> Opcode_GE [] x \in {"&&", "and"} -> Opcode_AND
          [] x \in {"||", "or"} -> Opcode_OR]

\* op_map of visit_binary_operation
op_map ==
    [x \in {"+", "-", "*", "/", "%", "==", "!=", "<", "<=", ">", ">=", "&&",
            "||", "and", "or"} |->
        CASE x = "+" -> Opcode_ADD [] x = "-" -> Opcode_SUB
          [] x = "*" -> Opcode_MUL [] x = "/" -> Opcode_DIV
          [] x = "%" -> Opcode_MOD [] x = "==" -> Opcode_EQ
          [] x = "!=" -> Opcode_NE [] x = "<" -> Opcode_LT
          [] x = "<=" -> Opcode_LE [] x = ">" -> Opcode_GT
          [] x = ">=" -> Opcode_GE [] x \in {"&&", "and"} -> Opcode_AND
          [] x \in {"||", "or"} -> Opcode_OR]

\* builtin_functions: the number of arguments each generator requires
builtin_functions ==
    [x \in {"print", "print_number", "readLine", "alloc", "readLineBuf", "read",
            "readInt", "len", "chr", "putc", "v_load", "v_add", "v_dot",
            "v_store", "v_sum", "set_interrupt_handler", "enable_interrupts",
            "disable_interrupts"} |->
        CASE x \in {"readLine", "read", "readInt", "enable_interrupts",
                    "disable_interrupts"} -> 0
          [] x \in {"readLineBuf", "v_dot", "v_store", "set_interrupt_handler"} -> 2
          [] x \in {"v_load", "v_add"} -> 3
          [] OTHER -> 1]

\* The bytes visit_vector_literal stores: the length word, then the
\* elements, which must be number literals.
vector_data(elements) ==
    PackWord(IntOf(Len(elements)))
    \o [i \in 1..(4 * Len(elements)) |->
            PackWord(IntOf(elements[((i - 1) \div 4) + 1].value))[((i - 1) % 4) + 1]]

RECURSIVE visit(_, _)
RECURSIVE visit_all(_, _)
RECURSIVE builtin(_, _, _)

\* "for statement in statements: statement.accept(self)", and the same
\* loop over the arguments of a call.
visit_all(g, nodes) ==
    IF nodes = <<>> THEN g ELSE visit_all(visit(g, Head(nodes)), Tail(nodes))

\* The _generate_* methods, lines 490-700.  Addresses of the fixed loops
\* are those _patch_address fills in.
builtin(g, name, arguments) ==
    LET at == Len(g.instructions)
        p_addr == Len(g.data_memory)
    IN
    IF Len(arguments) # builtin_functions[name] THEN CodeGenError(g, "arguments")
    ELSE CASE name = "print" -> emit(visit(g, arguments[1]), Opcode_OUT, 1)
      [] name = "print_number" -> emit(visit(g, arguments[1]), Opcode_OUT, 0)
      [] name = "putc" -> emit(visit(g, arguments[1]), Opcode_OUT, 2)
      [] name \in {"read", "readInt"} -> emit(g, Opcode_IN, 0)
      [] name = "alloc" ->
            IF arguments[1].kind # "NumberLiteral"
            THEN CodeGenError(g, "alloc")
            ELSE emit(add_data(g, [i \in 1..arguments[1].value |-> 95]),
                      Opcode_PUSH, Len(g.data_memory))
      [] name = "readLine" ->
            emit_all(g, <<Instruction(Opcode_IN, 0), Instruction(Opcode_DUP, 0), Instruction(Opcode_PUSH, 0),
                          Instruction(Opcode_EQ, 0), Instruction(Opcode_JNZ, at + 11), Instruction(Opcode_DUP, 0),
                          Instruction(Opcode_PUSH, 10), Instruction(Opcode_EQ, 0), Instruction(Opcode_JNZ, at + 11),
                          Instruction(Opcode_OUT, 1), Instruction(Opcode_JMP, at),
                          Instruction(Opcode_POP, 0), Instruction(Opcode_PUSH, 0)>>)
      [] name = "readLineBuf" ->
            LET g1 == emit_all(visit(add_data(g, <<0, 0, 0, 0>>), arguments[1]),
                               <<Instruction(Opcode_PUSH, p_addr), Instruction(Opcode_STORE, 0)>>)
                loop_start == Len(g1.instructions)
                g2 == emit(visit(emit_all(g1, <<Instruction(Opcode_PUSH, p_addr),
                                               Instruction(Opcode_LOAD, 0)>>),
                                 arguments[1]),
                           Opcode_SUB, 0)
                g3 == emit_all(visit(g2, arguments[2]),
                               <<Instruction(Opcode_PUSH, 1), Instruction(Opcode_SUB, 0), Instruction(Opcode_GE, 0)>>)
                end_addr == Len(g3.instructions) + 20
            IN  emit_all(g3,
                    <<Instruction(Opcode_JNZ, end_addr),
                      Instruction(Opcode_IN, 0), Instruction(Opcode_DUP, 0), Instruction(Opcode_PUSH, 0),
                      Instruction(Opcode_EQ, 0), Instruction(Opcode_JNZ, end_addr),
                      Instruction(Opcode_DUP, 0), Instruction(Opcode_PUSH, 10), Instruction(Opcode_EQ, 0),
                      Instruction(Opcode_JNZ, end_addr),
                      Instruction(Opcode_PUSH, p_addr), Instruction(Opcode_LOAD, 0), Instruction(Opcode_STOREB, 0),
                      Instruction(Opcode_PUSH, p_addr), Instruction(Opcode_LOAD, 0), Instruction(Opcode_PUSH, 1),
                      Instruction(Opcode_ADD, 0), Instruction(Opcode_PUSH, p_addr), Instruction(Opcode_STORE, 0),
                      Instruction(Opcode_JMP, loop_start),
                      Instruction(Opcode_PUSH, p_addr), Instruction(Opcode_LOAD, 0), Instruction(Opcode_PUSH, 0),
                      Instruction(Opcode_SWAP, 0), Instruction(Opcode_STOREB, 0)>>)
      [] name = "len" -> emit(visit(g, arguments[1]), Opcode_LOAD, 0)
      [] name = "chr" -> visit(g, arguments[1])
      [] name = "v_load" -> emit(visit_all(g, arguments), Opcode_V_LOAD, 0)
      [] name = "v_add" -> emit(visit_all(g, arguments), Opcode_V_ADD, 0)
      [] name = "v_dot" -> emit(visit_all(g, arguments), Opcode_V_DOT, 0)
      [] name = "v_store" ->
            emit(visit(visit(g, arguments[2]), arguments[1]), Opcode_V_STORE, 0)
      [] name = "v_sum" -> emit(visit(g, arguments[1]), Opcode_V_SUM, 0)
      [] name = "set_interrupt_handler" ->
            emit(visit_all(g, arguments), Opcode_INT, 128)
      [] name = "enable_interrupts" -> emit(g, Opcode_INT, 129)
      [] name = "disable_interrupts" -> emit(g, Opcode_INT, 130)

\* node.accept(self): the visit_* method of the node's class, lines 147-488.
\* Number literals are integers.
visit(g, node) ==
    IF g.error # "none" THEN g
    ELSE CASE node.kind = "Program" -> visit_all(g, node.statements)
      [] node.kind = "NumberLiteral" -> emit(g, Opcode_PUSH, node.value)
      [] node.kind = "StringLiteral" ->
            IF node.value \in DOMAIN g.strings
            THEN emit(g, Opcode_PUSH, g.strings[node.value])
            ELSE emit([add_data(g, node.value \o <<0>>) EXCEPT
                          !.strings = (node.value :> Len(g.data_memory)) @@ @],
                      Opcode_PUSH, Len(g.data_memory))
      [] node.kind = "BooleanLiteral" ->
            emit(g, Opcode_PUSH, IF node.value THEN 1 ELSE 0)
      [] node.kind = "NullLiteral" -> emit(g, Opcode_PUSH, 0)
      [] node.kind = "Identifier" ->
            IF node.name \in DOMAIN g.functions
            THEN emit(g, Opcode_PUSH, g.functions[node.name])
            ELSE IF get(g.scopes, node.name) = None
            THEN CodeGenError(g, "undefined variable")
            ELSE emit(emit(g, Opcode_PUSH, get(g.scopes, node.name)[1].address),
                      Opcode_LOAD, 0)
      [] node.kind = "BinaryOperation" ->
            IF node.operator \in DOMAIN op_map
            THEN emit(visit(visit(g, node.left), node.right),
                      op_map[node.operator], 0)
            ELSE CodeGenError(visit(visit(g, node.left), node.right),
                              "binary operator")
      [] node.kind = "UnaryOperation" ->
            IF node.operator = "-"
            THEN emit(visit(g, node.operand), Opcode_NEG, 0)
            ELSE IF node.operator \in {"!", "not"}
            THEN emit(visit(g, node.operand), Opcode_NOT, 0)
            ELSE CodeGenError(visit(g, node.operand), "unary operator")
      [] node.kind = "FunctionCall" ->
            IF node.name \in DOMAIN builtin_functions
            THEN builtin(g, node.name, node.arguments)
            ELSE IF node.name \in DOMAIN g.functions
            THEN emit(visit_all(g, node.arguments), Opcode_CALL,
                      g.functions[node.name])
            ELSE CodeGenError(g, "undefined function")
      [] node.kind = "VectorLiteral" ->
            IF \E i \in DOMAIN node.elements : node.elements[i].kind # "NumberLiteral"
            THEN CodeGenError(g, "vector element")
            ELSE emit(add_data(g, vector_data(node.elements)),
                      Opcode_PUSH, Len(g.data_memory))
      [] node.kind = "ArrayAccess" ->
            emit_all(visit(visit(g, node.array), node.index),
                     <<Instruction(Opcode_PUSH, 4), Instruction(Opcode_MUL, 0), Instruction(Opcode_PUSH, 4),
                       Instruction(Opcode_ADD, 0), Instruction(Opcode_ADD, 0), Instruction(Opcode_LOAD, 0)>>)
      [] node.kind = "ExpressionStatement" ->
            IF node.expression.kind = "FunctionCall"
            THEN visit(g, node.expression)
            ELSE emit(visit(g, node.expression), Opcode_POP, 0)
      [] node.kind = "VarDeclaration" ->
            LET g1 == IF node.initializer # None
                      THEN visit(g, node.initializer[1])
                      ELSE emit(g, Opcode_PUSH, 0)
            IN  define(emit_all(add_data(g1, <<0, 0, 0, 0>>),
                                <<Instruction(Opcode_PUSH, Len(g1.data_memory)),
                                  Instruction(Opcode_STORE, 0)>>),
                       node.name,
                       [address |-> Len(g1.data_memory), const |-> node.is_const])
      [] node.kind = "Assignment" ->
            IF get(g.scopes, node.target.name) = None
            THEN CodeGenError(g, "undefined variable")
            ELSE IF get(g.scopes, node.target.name)[1].const
            THEN CodeGenError(g, "const")
            ELSE LET g1 == visit(g, node.value)
                     g2 == CASE node.operator = "=" -> g1
                             [] node.operator = "+=" ->
                                   emit(visit(g1, node.target), Opcode_ADD, 0)
                             [] node.operator = "-=" ->
                                   emit(visit(g1, node.target), Opcode_SUB, 0)
                             [] OTHER -> CodeGenError(g1, "assignment operator")
                 IN  emit_all(g2, <<Instruction(Opcode_PUSH,
                                      get(g.scopes, node.target.name)[1].address),
                                    Instruction(Opcode_STORE, 0)>>)
      [] node.kind = "Block" ->
            exit_scope(visit_all(enter_scope(g), node.statements))
      [] node.kind = "IfStatement" ->
            LET g1 == emit(visit(g, node.condition), Opcode_JZ, 0)
                jump_to_else == Len(g1.instructions) - 1
                g2 == visit(g1, node.then_stmt)
            IN  IF node.else_stmt = None
                THEN patch_address(g2, jump_to_else, Len(g2.instructions))
                ELSE LET g3 == emit(g2, Opcode_JMP, 0)
                         g4 == visit(patch_address(g3, jump_to_else,
                                                   Len(g3.instructions)),
                                     node.else_stmt[1])
                     IN  patch_address(g4, Len(g2.instructions),
                                       Len(g4.instructions))
      [] node.kind = "WhileStatement" ->
            LET g1 == emit(visit(g, node.condition), Opcode_JZ, 0)
                g2 == emit(visit(g1, node.body), Opcode_JMP, Len(g.instructions))
            IN  patch_address(g2, Len(g1.instructions) - 1, Len(g2.instructions))
      [] node.kind = "ForStatement" ->
            LET g0 == IF node.init # None THEN visit(enter_scope(g), node.init[1])
                      ELSE enter_scope(g)
                g1 == IF node.condition # None
                      THEN emit(visit(g0, node.condition[1]), Opcode_JZ, 0)
                      ELSE g0
                g2 == visit(g1, node.body)
                g3 == IF node.update # None
                      THEN emit(visit(g2, node.update[1]), Opcode_POP, 0)
                      ELSE g2
                g4 == emit(g3, Opcode_JMP, Len(g0.instructions))
            IN  exit_scope(IF node.condition # None /\ Len(g1.instructions) - 1 # 0
                           THEN patch_address(g4, Len(g1.instructions) - 1,
                                              Len(g4.instructions))
                           ELSE g4)
      [] node.kind = "FunctionDeclaration" ->
            LET func_addr == Len(g.instructions) + 1
                n  == Len(node.parameters)
                g1 == [emit(g, Opcode_JMP, 0) EXCEPT
                          !.functions = (node.name :> func_addr) @@ @,
                          !.scopes = Append(@, <<>>)]
                g2 == [g1 EXCEPT
                          !.data_memory = @ \o [i \in 1..(4 * n) |-> 0],
                          !.instructions = @ \o
                              [i \in 1..(2 * n) |->
                                  IF i % 2 = 1
                                  THEN Instruction(Opcode_PUSH,
                                         Len(g.data_memory) + (4 * ((i - 1) \div 2)))
                                  ELSE Instruction(Opcode_STORE, 0)],
                          !.scopes[Len(g1.scopes)] =
                              [x \in {node.parameters[i] : i \in 1..n} |->
                                  [address |->
                                      Len(g.data_memory) + (4 *
                                          ((CHOOSE k \in 1..n :
                                              /\ node.parameters[(n + 1) - k] = x
                                              /\ \A j \in (k + 1)..n :
                                                    node.parameters[(n + 1) - j] # x)
                                           - 1)),
                                   const |-> FALSE]]]
                g3 == exit_scope(emit(visit(g2, node.body), Opcode_RET, 0))
            IN  patch_address(g3, Len(g.instructions), Len(g3.instructions))
      [] node.kind = "ReturnStatement" ->
            IF node.value # None
            THEN emit(visit(g, node.value[1]), Opcode_RET, 0)
            ELSE emit(emit(g, Opcode_PUSH, 0), Opcode_RET, 0)

\* CodeGenerator.generate
generate(program) == emit(visit(CodeGenerator, program), Opcode_HALT, 0)

\* ----------------------------------------------------------------------
\* Programs and host scenarios
\* ----------------------------------------------------------------------

\* Constructor arguments of the processor under study.
DataMemorySize == 8

StackSize == 3

\* Longest program drawn from the instruction pool.
MaxProgLen == 2

\* Most schedule_input calls in the interrupt scenarios.
MaxEvents == 2

\* Ticks followed for the short programs, and for the interrupt programs.
MaxCycles == 12

MaxDemoCycles == 100

I(opcode, operand) == Instruction(opcode, operand)

\* A byte that is no member of Opcode.
UndefinedOpcode == CHOOSE b \in 0..255 : b \notin Opcode /\ b > Opcode_V_SET

Pool ==
    {I(Opcode_PUSH, 0), I(Opcode_PUSH, 1), I(Opcode_PUSH, 16777215),
     I(Opcode_POP, 0), I(Opcode_DUP, 0), I(Opcode_ADD, 0), I(Opcode_DIV, 0),
     I(Opcode_JMP, 0), I(Opcode_CALL, 0), I(Opcode_RET, 0), I(Opcode_LOAD, 0),
     I(Opcode_STORE, 0), I(Opcode_IN, 0), I(Opcode_OUT, 2), I(Opcode_HALT, 0),
     I(UndefinedOpcode, 0)}

ShortPrograms == UNION {[1..n -> Pool] : n \in 1..MaxProgLen}

\* Input data: bytes, and an integer below 0, which machine.py accepts
\* in a schedule file.
ByteX == <<0, 88>>

ByteY == <<0, 89>>

ByteZ == <<0, 90>>

ByteA == <<0, 65>>

MinusOne == <<-1, 65535>>

Event(cycle, data) == [cycle |-> cycle, data |-> data]

\* What the host does with one processor: the program and data it loads,
\* the events it may schedule (at most max_events of them), the budgets it
\* passes to run, whether it also calls step itself, and the tick at which
\* the exploration stops.
Scenario(name, program, data, events, max_events, budgets, stepping, horizon) ==
    [name |-> name, program |-> program, data |-> data, events |-> events,
     max_events |-> max_events, budgets |-> budgets, stepping |-> stepping,
     horizon |-> horizon, data_memory_size |-> DataMemorySize,
     stack_size |-> StackSize, source |-> None]

Short(program) ==
    Scenario("short", program, <<>>, {Event(0, MinusOne)}, 1,
             {MaxCycles}, TRUE, MaxCycles)

\* spec.md S6: install the handler at 5 for vector 0, enable, spin.
InterruptDemo ==
    <<I(Opcode_PUSH, 0), I(Opcode_PUSH, 5), I(Opcode_INT, 128),
      I(Opcode_INT, 129), I(Opcode_JMP, 4),
      I(Opcode_IN, 0), I(Opcode_OUT, 2), I(Opcode_IRET, 0)>>

\* Interrupts are enabled three instructions before the handler at 10 is
\* installed for vector 0.
LateHandler ==
    <<I(Opcode_INT, 129), I(Opcode_PUSH, 1), I(Opcode_POP, 0),
      I(Opcode_PUSH, 0), I(Opcode_PUSH, 10), I(Opcode_INT, 128),
      I(Opcode_PUSH, 1), I(Opcode_POP, 0), I(Opcode_PUSH, 1), I(Opcode_HALT, 0),
      I(Opcode_IN, 0), I(Opcode_OUT, 2), I(Opcode_IRET, 0)>>

\* A program that works in a loop (1 + 2, dropped) under a handler that
\* calls a routine for its input and output and returns with IRET.
ReturnDemo ==
    <<I(Opcode_PUSH, 0), I(Opcode_PUSH, 9), I(Opcode_INT, 128),
      I(Opcode_INT, 129),
      I(Opcode_PUSH, 1), I(Opcode_PUSH, 2), I(Opcode_ADD, 0), I(Opcode_POP, 0),
      I(Opcode_JMP, 4),
      I(Opcode_CALL, 11), I(Opcode_IRET, 0),
      I(Opcode_IN, 0), I(Opcode_OUT, 2), I(Opcode_RET, 0)>>

\* The same with a handler address outside the program.
BadHandler ==
    <<I(Opcode_PUSH, 0), I(Opcode_PUSH, 50), I(Opcode_INT, 128),
      I(Opcode_INT, 129), I(Opcode_JMP, 4)>>

\* enable_interrupts() twice, with the handler at 6 installed for vector 0.
EnableTwice ==
    <<I(Opcode_PUSH, 0), I(Opcode_PUSH, 6), I(Opcode_INT, 128),
      I(Opcode_INT, 129), I(Opcode_INT, 129), I(Opcode_HALT, 0),
      I(Opcode_IRET, 0)>>

\* One push more than the data stack holds.
Overfill == [i \in 1..(StackSize + 1) |-> I(Opcode_PUSH, i)]

Catalogue ==
    {Overfill,
     <<I(Opcode_PUSH, 1), I(Opcode_SWAP, 0), I(Opcode_HALT, 0)>>,
     <<I(Opcode_PUSH, 65535), I(Opcode_PUSH, 65537), I(Opcode_MUL, 0), I(Opcode_HALT, 0)>>,
     <<I(Opcode_PUSH, 0), I(Opcode_PUSH, 1), I(Opcode_SUB, 0), I(Opcode_HALT, 0)>>,
     <<I(Opcode_NOP, 0), I(Opcode_IRET, 0), I(Opcode_HALT, 0)>>,
     <<I(Opcode_INT, 1), I(Opcode_INT, 0), I(Opcode_HALT, 0)>>,
     <<I(Opcode_PUSH, 1), I(Opcode_PUSH, 0), I(Opcode_DIV, 0), I(Opcode_HALT, 0)>>,
     <<I(Opcode_PUSH, 1), I(Opcode_PUSH, 0), I(Opcode_MOD, 0), I(Opcode_HALT, 0)>>,
     <<I(Opcode_PUSH, 7), I(Opcode_PUSH, 5), I(Opcode_STORE, 0), I(Opcode_HALT, 0)>>,
     <<I(Opcode_PUSH, 7), I(Opcode_PUSH, 8), I(Opcode_STOREB, 0), I(Opcode_HALT, 0)>>,
     <<I(Opcode_PUSH, 8), I(Opcode_LOADB, 0), I(Opcode_HALT, 0)>>,
     <<I(Opcode_PUSH, 1), I(Opcode_JMP, 7), I(Opcode_HALT, 0)>>,
     <<I(Opcode_PUSH, 1), I(Opcode_CALL, 7), I(Opcode_HALT, 0)>>,
     <<I(Opcode_PUSH, 1), I(Opcode_NEG, 0), I(Opcode_HALT, 0)>>,
     <<I(Opcode_PUSH, 1), I(UndefinedOpcode, 0), I(Opcode_HALT, 0)>>,
     <<I(Opcode_PUSH, 5), I(Opcode_PUSH, 3), I(Opcode_ADD, 0), I(Opcode_HALT, 0)>>,
     <<I(Opcode_PUSH, 5), I(Opcode_PUSH, 3), I(Opcode_ADD, 0), I(Opcode_PUSH, 2),
       I(Opcode_MUL, 0), I(Opcode_HALT, 0)>>,
     <<I(Opcode_CALL, 0)>>,
     <<I(Opcode_CALL, 2), I(Opcode_HALT, 0), I(Opcode_RET, 0)>>,
     <<I(Opcode_PUSH, 0), I(Opcode_JZ, 3), I(Opcode_HALT, 0),
       I(Opcode_PUSH, 1), I(Opcode_JZ, 0), I(Opcode_HALT, 0)>>,
     <<I(Opcode_PUSH, 1), I(Opcode_JNZ, 3), I(Opcode_HALT, 0),
       I(Opcode_PUSH, 0), I(Opcode_JNZ, 0), I(Opcode_HALT, 0)>>}

\* A program the host runs once, without input.
Directed(name, program, data) ==
    Scenario(name, program, data, {}, 0, {MaxCycles * 2}, FALSE, MaxCycles * 2)

\* Words as the four bytes load_data puts in memory, lowest first: 0, 1,
\* 0xFFFF, 0x10000, 0x12345678, 0x7FFFFFFF, 0x80000000, 0xFFFFFFFF.
DataWords ==
    {<<0, 0, 0, 0>>, <<1, 0, 0, 0>>, <<255, 255, 0, 0>>, <<0, 0, 1, 0>>,
     <<120, 86, 52, 18>>, <<255, 255, 255, 127>>, <<0, 0, 0, 128>>,
     <<255, 255, 255, 255>>}

\* a and b loaded from data memory, then one binary instruction.
ArithProgram(opcode) ==
    <<I(Opcode_PUSH, 0), I(Opcode_LOAD, 0), I(Opcode_PUSH, 4), I(Opcode_LOAD, 0),
      I(opcode, 0), I(Opcode_HALT, 0)>>

ArithScenarios ==
    {Directed("arith", ArithProgram(opcode), a \o b) :
        opcode \in {Opcode_ADD, Opcode_SUB, Opcode_MUL}, a \in DataWords, b \in DataWords}

\* The word at 0 stored at an address and read back, as a word or a byte.
StoreLoadProgram(store, load, address) ==
    <<I(Opcode_PUSH, 0), I(Opcode_LOAD, 0), I(Opcode_PUSH, address), I(store, 0),
      I(Opcode_PUSH, address), I(load, 0), I(Opcode_HALT, 0)>>

MemoryScenarios ==
    {Directed("store_load", StoreLoadProgram(Opcode_STORE, Opcode_LOAD, address), v) :
        address \in 0..(DataMemorySize - 4), v \in DataWords}
    \cup {Directed("storeb_loadb",
                   StoreLoadProgram(Opcode_STOREB, Opcode_LOADB, address), v) :
            address \in 0..(DataMemorySize - 1), v \in DataWords}

\* data_memory_size when the constructor is called without arguments.
DefaultDataMemorySize == 65536

\* "Hello" and its terminator.
Hello == <<72, 101, 108, 108, 111, 0>>

\* Memory without a zero byte.
Unterminated == [i \in 1..DataMemorySize |-> i]

\* Port 1: strings in memory, addresses outside memory, and test_output
\* on a processor of the default size.  Port 3: a word written and read
\* back, with and without a byte waiting in the input buffer.
OutputScenarios ==
    {Scenario("ports", <<I(Opcode_PUSH, 65), I(Opcode_OUT, 3), I(Opcode_IN, 3),
                         I(Opcode_HALT, 0)>>, <<>>, {Event(0, ByteX)}, 1,
              {MaxCycles * 2}, FALSE, MaxCycles * 2),
     Directed("hello", <<I(Opcode_PUSH, 0), I(Opcode_OUT, 1), I(Opcode_HALT, 0)>>, Hello),
     Directed("string", <<I(Opcode_PUSH, 3), I(Opcode_OUT, 1), I(Opcode_HALT, 0)>>, Hello),
     Directed("string", <<I(Opcode_PUSH, 3), I(Opcode_OUT, 1), I(Opcode_HALT, 0)>>,
              Unterminated),
     Directed("number", <<I(Opcode_PUSH, DataMemorySize), I(Opcode_OUT, 1),
                          I(Opcode_HALT, 0)>>, Hello),
     Directed("number", <<I(Opcode_PUSH, 300), I(Opcode_OUT, 1), I(Opcode_HALT, 0)>>,
              Hello),
     Directed("number", <<I(Opcode_PUSH, 0), I(Opcode_LOAD, 0), I(Opcode_OUT, 1),
                          I(Opcode_HALT, 0)>>, <<255, 255, 255, 255>>),
     Directed("swi", <<I(Opcode_PUSH, 0), I(Opcode_INT, 0), I(Opcode_HALT, 0)>>, Hello),
     Directed("swi", <<I(Opcode_PUSH, 3), I(Opcode_PUSH, 0), I(Opcode_INT, 0),
                       I(Opcode_HALT, 0), I(Opcode_INT, 1), I(Opcode_HALT, 0)>>, Hello),
     [Directed("test_output",
               <<I(Opcode_PUSH, 65), I(Opcode_OUT, 1), I(Opcode_HALT, 0)>>, <<>>)
        EXCEPT !.data_memory_size = DefaultDataMemorySize]}

\* Register 1 loaded with the one-element vector [7] stored at address 0
\* (its length word first), then one vector instruction with its arguments.
VectorProgram(arguments, opcode, operand) ==
    <<I(Opcode_PUSH, 0), I(Opcode_PUSH, 1), I(Opcode_PUSH, 1), I(Opcode_V_LOAD, 0)>>
    \o [i \in DOMAIN arguments |-> I(Opcode_PUSH, arguments[i])]
    \o <<I(opcode, operand), I(Opcode_HALT, 0)>>

\* Register indices inside and outside 0..7 as sources and destinations,
\* and V_SET with element indices inside and outside the vector.
VectorScenarios ==
    {Scenario("vector", VectorProgram(t[1], t[2], t[3]), <<1, 0, 0, 0, 7, 0, 0, 0>>,
              {}, 0, {MaxCycles * 3}, FALSE, MaxCycles * 3) :
        t \in {<<<<1, 1, 2>>, Opcode_V_ADD, 0>>, <<<<1, 1, 8>>, Opcode_V_ADD, 0>>,
               <<<<1, 8, 1>>, Opcode_V_ADD, 0>>, <<<<8, 1, 2>>, Opcode_V_SUB, 0>>,
               <<<<1, 8, 2>>, Opcode_V_MUL, 0>>, <<<<1, 8>>, Opcode_V_DOT, 0>>,
               <<<<8>>, Opcode_V_SUM, 0>>, <<<<8>>, Opcode_V_MAX, 0>>,
               <<<<1, 3, 8>>, Opcode_V_SCALE, 0>>, <<<<8, 3, 1>>, Opcode_V_SCALE, 0>>,
               <<<<1, 2>>, Opcode_V_COPY, 0>>, <<<<1, 8>>, Opcode_V_COPY, 0>>,
               <<<<8, 1>>, Opcode_V_COPY, 0>>, <<<<16777215, 1>>, Opcode_V_COPY, 0>>,
               <<<<1, 9>>, Opcode_V_SET, 0>>, <<<<1, 9>>, Opcode_V_SET, 1>>,
               <<<<8, 9>>, Opcode_V_SET, 0>>, <<<<0, 1, 8>>, Opcode_V_LOAD, 0>>,
               <<<<0, 8>>, Opcode_V_STORE, 0>>}}

\* The host calls run again and again, with the budgets 0, 1 and 3.
ResumeScenarios ==
    {Scenario("resume", program, <<>>, {Event(0, ByteA), Event(22, ByteX)}, 1,
              {0, 1, 3}, FALSE, MaxCycles * 3) :
        program \in {InterruptDemo,
                     <<I(Opcode_PUSH, 5), I(Opcode_PUSH, 3), I(Opcode_ADD, 0),
                       I(Opcode_HALT, 0)>>,
                     <<I(Opcode_IN, 0), I(Opcode_OUT, 2), I(Opcode_DIV, 0)>>,
                     <<I(Opcode_PUSH, 1), I(Opcode_JMP, 0)>>}}

\* data_stack size when the constructor is called without arguments.
DefaultStackSize == 1024

\* The syntax tree (lang/ast_nodes.py): one constructor for each class the
\* sources below use.
NumberLiteral(value) == [kind |-> "NumberLiteral", value |-> value]

StringLiteral(value) == [kind |-> "StringLiteral", value |-> value]

BooleanLiteral(value) == [kind |-> "BooleanLiteral", value |-> value]

NullLiteral == [kind |-> "NullLiteral"]

Identifier(name) == [kind |-> "Identifier", name |-> name]

BinaryOperation(left, operator, right) ==
    [kind |-> "BinaryOperation", left |-> left, operator |-> operator, right |-> right]

UnaryOperation(operator, operand) ==
    [kind |-> "UnaryOperation", operator |-> operator, operand |-> operand]

FunctionCall(name, arguments) ==
    [kind |-> "FunctionCall", name |-> name, arguments |-> arguments]

VectorLiteral(elements) == [kind |-> "VectorLiteral", elements |-> elements]

ArrayAccess(array, index) == [kind |-> "ArrayAccess", array |-> array, index |-> index]

ExpressionStatement(expression) ==
    [kind |-> "ExpressionStatement", expression |-> expression]

VarDeclaration(name, initializer, is_const) ==
    [kind |-> "VarDeclaration", name |-> name, initializer |-> initializer,
     is_const |-> is_const]

Assignment(target, value, operator) ==
    [kind |-> "Assignment", target |-> target, value |-> value, operator |-> operator]

Block(statements) == [kind |-> "Block", statements |-> statements]

IfStatement(condition, then_stmt, else_stmt) ==
    [kind |-> "IfStatement", condition |-> condition, then_stmt |-> then_stmt,
     else_stmt |-> else_stmt]

FunctionDeclaration(name, parameters, body) ==
    [kind |-> "FunctionDeclaration", name |-> name, parameters |-> parameters,
     body |-> body]

ReturnStatement(value) == [kind |-> "ReturnStatement", value |-> value]

WhileStatement(condition, body) ==
    [kind |-> "WhileStatement", condition |-> condition, body |-> body]

Program(statements) == [kind |-> "Program", statements |-> statements]

\* Memory and cycles given to a translated program.
CompiledMemorySize == 64

CompiledCycles == 400

\* The host translates a source, loads the image into a processor with the
\* default stack and runs it.
Compiled(name, source, image) ==
    [Scenario(name, image.instructions, image.data_memory, {}, 0,
              {CompiledCycles}, FALSE, CompiledCycles)
        EXCEPT !.data_memory_size = CompiledMemorySize,
               !.stack_size = DefaultStackSize,
               !.source = Some(source)]

\* let a = 7; function f(n) { return n; } function h() { }
Declarations ==
    <<VarDeclaration("a", Some(NumberLiteral(7)), FALSE),
      FunctionDeclaration("f", <<"n">>,
          Block(<<ReturnStatement(Some(Identifier("n")))>>)),
      FunctionDeclaration("h", <<>>, Block(<<>>))>>

\* Expression nodes of every class, over the declarations above.
Expressions ==
    <<NumberLiteral(5), StringLiteral(<<97>>), BooleanLiteral(TRUE), NullLiteral,
      Identifier("a"), Identifier("f"),
      UnaryOperation("!", Identifier("a")),
      UnaryOperation("-", NumberLiteral(5)),
      VectorLiteral(<<NumberLiteral(1), NumberLiteral(2)>>),
      ArrayAccess(VectorLiteral(<<NumberLiteral(1), NumberLiteral(2)>>),
                  NumberLiteral(1)),
      BinaryOperation(BinaryOperation(NumberLiteral(1), "+", Identifier("a")),
                      "*", UnaryOperation("!", NumberLiteral(0))),
      FunctionCall("f", <<NumberLiteral(5)>>),
      FunctionCall("h", <<>>),
      FunctionCall("f", <<FunctionCall("f", <<Identifier("a")>>)>>),
      FunctionCall("read", <<>>),
      FunctionCall("readInt", <<>>),
      FunctionCall("readLine", <<>>),
      FunctionCall("enable_interrupts", <<>>),
      FunctionCall("disable_interrupts", <<>>),
      FunctionCall("print_number", <<NumberLiteral(65)>>),
      FunctionCall("putc", <<NumberLiteral(65)>>),
      FunctionCall("chr", <<NumberLiteral(65)>>),
      FunctionCall("print", <<StringLiteral(<<97>>)>>),
      FunctionCall("len", <<StringLiteral(<<97>>)>>),
      FunctionCall("alloc", <<NumberLiteral(2)>>),
      FunctionCall("v_sum", <<NumberLiteral(0)>>),
      FunctionCall("v_dot", <<NumberLiteral(0), NumberLiteral(1)>>),
      FunctionCall("v_load", <<VectorLiteral(<<NumberLiteral(1)>>),
                               NumberLiteral(1), NumberLiteral(0)>>),
      FunctionCall("v_add", <<NumberLiteral(0), NumberLiteral(1),
                              NumberLiteral(2)>>),
      FunctionCall("v_store", <<NumberLiteral(0), NumberLiteral(32)>>),
      FunctionCall("set_interrupt_handler", <<NumberLiteral(0), Identifier("f")>>),
      FunctionCall("readLineBuf", <<FunctionCall("alloc", <<NumberLiteral(4)>>),
                                    NumberLiteral(4)>>)>>

\* The declarations, then the expression alone, then HALT.
ExpressionProgram(expression) == Program(Append(Declarations, expression))

ExpressionScenarios ==
    {Compiled("expression", ExpressionProgram(Expressions[i]),
              generate(ExpressionProgram(Expressions[i]))) :
        i \in DOMAIN Expressions}
    \cup {Compiled("expression",
                   ExpressionProgram(BinaryOperation(Identifier("a"), operator,
                                                     NumberLiteral(5))),
                   generate(ExpressionProgram(
                       BinaryOperation(Identifier("a"), operator,
                                       NumberLiteral(5))))) :
            operator \in DOMAIN op_map}

\* Largest argument of the recursive sum.
MaxSum == 5

\* function f(n) { if (n <= 0) return 0; return n + f(n - 1); }
\* print_number(f(k));
SumProgram(k) ==
    Program(<<FunctionDeclaration("f", <<"n">>,
                  Block(<<IfStatement(
                              BinaryOperation(Identifier("n"), "<=", NumberLiteral(0)),
                              ReturnStatement(Some(NumberLiteral(0))),
                              None),
                          ReturnStatement(Some(
                              BinaryOperation(
                                  Identifier("n"), "+",
                                  FunctionCall("f",
                                      <<BinaryOperation(Identifier("n"), "-",
                                                        NumberLiteral(1))>>))))>>)),
              ExpressionStatement(
                  FunctionCall("print_number",
                               <<FunctionCall("f", <<NumberLiteral(k)>>)>>))>>)

SumScenarios ==
    {Compiled("sum", SumProgram(k), generate(SumProgram(k))) : k \in 0..MaxSum}

\* function f(n) { if (n <= 0) return 0; return f(n - 1) + n; }
\* print_number(f(k));
ActivationProgram(k) ==
    Program(<<FunctionDeclaration("f", <<"n">>,
                  Block(<<IfStatement(
                              BinaryOperation(Identifier("n"), "<=", NumberLiteral(0)),
                              ReturnStatement(Some(NumberLiteral(0))),
                              None),
                          ReturnStatement(Some(
                              BinaryOperation(
                                  FunctionCall("f",
                                      <<BinaryOperation(Identifier("n"), "-",
                                                        NumberLiteral(1))>>),
                                  "+", Identifier("n"))))>>)),
              ExpressionStatement(
                  FunctionCall("print_number",
                               <<FunctionCall("f", <<NumberLiteral(k)>>)>>))>>)

\* let x = start; x += e;   or   let x = start; x -= e;
CompoundProgram(start, operator, e) ==
    Program(<<VarDeclaration("x", Some(NumberLiteral(start)), FALSE),
              Assignment(Identifier("x"), NumberLiteral(e), operator)>>)

CompoundScenarios ==
    {Compiled("compound", CompoundProgram(start, operator, e),
              generate(CompoundProgram(start, operator, e))) :
        start \in {0, 5}, operator \in {"+=", "-="}, e \in {0, 2, 6}}

\* let v = condition; let r = 0; if (condition) { r = 1; } else { r = 2; }
LogicProgram(condition) ==
    Program(<<VarDeclaration("v", Some(condition), FALSE),
              VarDeclaration("r", Some(NumberLiteral(0)), FALSE),
              IfStatement(condition,
                          Block(<<Assignment(Identifier("r"), NumberLiteral(1), "=")>>),
                          Some(Block(<<Assignment(Identifier("r"), NumberLiteral(2), "=")>>)))>>)

\* a && b, a || b and !a over the words 0, 1 and 2.
LogicScenarios ==
    {Compiled("logic",
              LogicProgram(BinaryOperation(NumberLiteral(a), operator, NumberLiteral(b))),
              generate(LogicProgram(
                  BinaryOperation(NumberLiteral(a), operator, NumberLiteral(b))))) :
        a \in 0..2, b \in 0..2, operator \in {"&&", "||"}}
    \cup {Compiled("logic", LogicProgram(UnaryOperation("!", NumberLiteral(a))),
                   generate(LogicProgram(UnaryOperation("!", NumberLiteral(a))))) :
            a \in 0..2}

ActivationScenarios ==
    {Compiled("activation", ActivationProgram(k), generate(ActivationProgram(k))) :
        k \in 0..MaxSum}

\* Largest length given to readLineBuf, and the address of its buffer.
MaxRead == 3

ReadBuf == 8

\* readLineBuf(ReadBuf, max);
ReadLineProgram(max) ==
    Program(<<ExpressionStatement(
                  FunctionCall("readLineBuf", <<NumberLiteral(ReadBuf), NumberLiteral(max)>>))>>)

\* The host schedules up to three bytes for the first cycles, letters,
\* newline and NUL, and runs the translated readLineBuf call; the schedule
\* is kept sorted by cycle and byte.
ReadLineScenarios ==
    {[Compiled("readline", ReadLineProgram(max), generate(ReadLineProgram(max)))
        EXCEPT !.events = {Event(0, ByteX), Event(0, <<0, 10>>), Event(1, ByteA),
                           Event(2, <<0, 10>>), Event(2, <<0, 0>>)},
               !.max_events = 3] :
        max \in 1..MaxRead}

\* Bodies of a handler written in the source language.
HandlerBodies == <<Block(<<>>), Block(<<ReturnStatement(None)>>)>>

\* function h() body  set_interrupt_handler(0, h); enable_interrupts();
\* 1; 2; 3; 4; 5; 6;
HandlerProgram(body) ==
    Program(<<FunctionDeclaration("h", <<>>, body),
              ExpressionStatement(FunctionCall("set_interrupt_handler",
                                               <<NumberLiteral(INPUT_READY), Identifier("h")>>)),
              ExpressionStatement(FunctionCall("enable_interrupts", <<>>))>>
            \o [k \in 1..6 |-> ExpressionStatement(NumberLiteral(k))])

\* The host schedules up to three input bytes and runs the translated
\* program.
HandlerScenarios ==
    {[Compiled("handler", HandlerProgram(HandlerBodies[i]),
               generate(HandlerProgram(HandlerBodies[i])))
        EXCEPT !.events = {Event(0, ByteA), Event(20, ByteX), Event(30, ByteY)},
               !.max_events = 3] :
        i \in DOMAIN HandlerBodies}

\* function f(n) { return n; }
Echo == FunctionDeclaration("f", <<"n">>, Block(<<ReturnStatement(Some(Identifier("n")))>>))

\* Programs of statements of every class:
\*   let a = 1; a = 2; a += 1; { let b = 3; } if (a) { a = 1; } else { a = 2; } 5;
\*   function f(n) { return n; } f(5);
\*   function f(n) { return n; } let i = 0; while (i < 2) { f(5); i = i + 1; }
StatementPrograms ==
    <<Program(<<VarDeclaration("a", Some(NumberLiteral(1)), FALSE),
                Assignment(Identifier("a"), NumberLiteral(2), "="),
                Assignment(Identifier("a"), NumberLiteral(1), "+="),
                Block(<<VarDeclaration("b", Some(NumberLiteral(3)), FALSE)>>),
                IfStatement(Identifier("a"),
                            Block(<<Assignment(Identifier("a"), NumberLiteral(1), "=")>>),
                            Some(Block(<<Assignment(Identifier("a"), NumberLiteral(2), "=")>>))),
                ExpressionStatement(NumberLiteral(5))>>),
      Program(<<Echo, ExpressionStatement(FunctionCall("f", <<NumberLiteral(5)>>))>>),
      Program(<<Echo,
                VarDeclaration("i", Some(NumberLiteral(0)), FALSE),
                WhileStatement(
                    BinaryOperation(Identifier("i"), "<", NumberLiteral(2)),
                    Block(<<ExpressionStatement(FunctionCall("f", <<NumberLiteral(5)>>)),
                            Assignment(Identifier("i"),
                                       BinaryOperation(Identifier("i"), "+", NumberLiteral(1)),
                                       "=")>>))>>)>>

StatementScenarios ==
    {Compiled("statement", StatementPrograms[i], generate(StatementPrograms[i])) :
        i \in DOMAIN StatementPrograms}

Scenarios ==
    {Short(program) : program \in ShortPrograms}
    \cup ExpressionScenarios
    \cup StatementScenarios
    \cup ActivationScenarios
    \cup CompoundScenarios
    \cup LogicScenarios
    \cup SumScenarios
    \cup ReadLineScenarios
    \cup HandlerScenarios
    \cup ResumeScenarios
    \cup VectorScenarios
    \cup ArithScenarios
    \cup MemoryScenarios
    \cup OutputScenarios
    \cup {Scenario("catalogue", program, <<>>, {}, 0, {MaxCycles * 2}, TRUE,
                   MaxCycles * 2) :
            program \in Catalogue}
    \cup {Scenario("S6", InterruptDemo, <<>>,
                   {Event(10, ByteX), Event(20, ByteY), Event(30, ByteZ)}, 3,
                   {100}, FALSE, MaxDemoCycles),
          Scenario("irq", InterruptDemo, <<>>,
                   {Event(0, ByteZ), Event(0, ByteA), Event(22, ByteX)}, MaxEvents,
                   {MaxCycles * 3}, TRUE, MaxCycles * 3),
          Scenario("return", ReturnDemo, <<>>,
                   {Event(0, ByteA), Event(0, ByteZ), Event(25, ByteX),
                    Event(31, ByteY)}, MaxEvents,
                   {MaxDemoCycles}, FALSE, MaxDemoCycles),
          Scenario("late_handler", LateHandler, <<>>,
                   {Event(0, ByteA), Event(9, ByteY), Event(23, ByteX)}, MaxEvents,
                   {MaxDemoCycles}, FALSE, MaxDemoCycles),
          Scenario("bad_handler", BadHandler, <<>>,
                   {Event(0, ByteA)}, 1, {MaxCycles * 3}, TRUE, MaxCycles * 3),
          Scenario("enable", EnableTwice, <<>>,
                   {Event(0, ByteA)}, 1, {MaxCycles * 3}, FALSE, MaxCycles * 3)}

\* ----------------------------------------------------------------------
\* The host and the processor as a state machine
\* ----------------------------------------------------------------------

VARIABLES
    vm,         \* the StackProcessor
    env,        \* the scenario the host follows
    host,       \* where the host is: idle, or inside the loop of run
    result,     \* the dictionary the last run returned, None before
    raised,     \* the exception that left the last call, "none" if it returned
    call,       \* the last method the host called
    prev,       \* vm before the last call that touched it
    last,       \* what the last call of step did
    scheduled,  \* the number of schedule_input_event calls so far
    delivered,  \* the events accepted so far, in the order accepted
    cost_sum,   \* the table cost of the instructions committed so far
    faulted,    \* the first ProcessorError caught, None before
    single,     \* one run call in place of the run calls made in a row
    file,       \* the translator's side: an instruction, its four bytes in
                \* the binary file and the instruction read back; or a
                \* source, the image generated from it and the exit code;
                \* None when the translator is not run
    own         \* the interrupted program's own instructions: where the
                \* last one was and where it was due, and the returns
                \* from handlers

vars == <<vm, env, host, result, raised, call, prev, last, scheduled,
          delivered, cost_sum, faulted, single, file, own>>

Idle == [mode |-> "idle", start_cycle |-> 0, max_cycles |-> 0]

NoStep == [ret |-> TRUE, committed |-> None, fault |-> "none", entered |-> None]

\* A second processor on which the host makes one call of run where it
\* makes several in a row on the first: it starts from p with the budget 0,
\* every run call adds its budget, and the loop of run is followed as far
\* as the budget allows.  over: step returned False or raised, after which
\* a larger budget changes nothing.
Single(p) == [vm |-> p, start_cycle |-> p.cycle_count, max_cycles |-> 0, over |-> FALSE]

SingleAfter(c, r) == [c EXCEPT !.vm = r.vm, !.over = r.raised # "none" \/ ~r.ret]

SingleIter(c) ==
    IF c.over \/ ~(c.vm.cycle_count - c.start_cycle < c.max_cycles) THEN c
    ELSE SingleAfter(c, step(c.vm))

\* The processor as it was when the instruction a call of step commits was
\* fetched: after the dispatch of lines 825-834 when the call fetches it,
\* as the call finds it otherwise.
Fetched(p) ==
    IF p.state # HALTED /\ p.current_instruction = None
    THEN Dispatch(AcceptInput(p)).vm
    ELSE p

\* No instruction yet: the program is due at address 0.
NoOwn ==
    [at |-> <<0, 0>>, due |-> <<0, 0>>, next |-> <<0, 0>>, entry |-> None,
     returned |-> None, resumed |-> None, first |-> None, broken |-> FALSE,
     drop |-> None, dropped |-> {}]

\* A handler is entered: the PC and the depth of the call stack it found.
OwnEntered(o, p, r) ==
    IF r.entered # None
    THEN [o EXCEPT !.entry = Some([p |-> p.pc, depth |-> Len(p.call_stack)])]
    ELSE o

\* The request a call of step on p takes from the queue and finds no
\* handler for (lines 825-828), if it does.
Dropped(p) ==
    IF p.state # HALTED /\ p.current_instruction = None
       /\ ~PcPastEnd(p) /\ CanDispatch(AcceptInput(p))
       /\ TakeRequest(AcceptInput(p).pending_interrupts).req.vector
              \notin DOMAIN p.interrupt_handlers
    THEN Some(TakeRequest(AcceptInput(p).pending_interrupts).req.id)
    ELSE None

\* drop is the request the last call of step found no handler for, dropped
\* all such requests so far.
OwnDropped(o, d) ==
    [o EXCEPT !.drop = d,
              !.dropped = IF d = None THEN @ ELSE @ \cup {d[1]}]

\* An instruction fetched from f commits.  Outside a handler it is one of
\* the program's own: at is its address, due the PC the previous one left.
\* Inside a handler, an IRET that finds the call stack as deep as the entry
\* left it is the handler's return: returned holds where it was due and where
\* it went, resumed the return address until the next commit, first that
\* address with the address of the next commit; an IRET or a RET at another
\* depth breaks the balance.
OwnAfter(o, f, r) ==
    IF r.committed = None THEN o
    ELSE LET c == IF o.resumed = None THEN o
                  ELSE [o EXCEPT !.resumed = None,
                                 !.first = Some([p |-> o.resumed[1], at |-> f.pc])]
         IN  IF ~f.in_interrupt
             THEN [c EXCEPT !.at = f.pc, !.due = o.next, !.next = r.vm.pc]
             ELSE IF r.committed[1].opcode \notin {Opcode_IRET, Opcode_RET}
                     \/ r.fault # "none" \/ o.entry = None
             THEN c
             ELSE IF r.committed[1].opcode = Opcode_IRET
                     /\ Len(f.call_stack) = o.entry[1].depth + 1
             THEN [c EXCEPT !.resumed = Some(r.vm.pc),
                            !.returned = Some([p |-> o.entry[1].p,
                                               pc |-> r.vm.pc,
                                               in_interrupt |-> r.vm.in_interrupt])]
             ELSE IF Len(f.call_stack) <= o.entry[1].depth + 1
                     /\ (r.committed[1].opcode = Opcode_IRET
                         \/ Len(f.call_stack) = o.entry[1].depth + 1)
             THEN [c EXCEPT !.broken = TRUE]
             ELSE c

\* The processor of scenario env after construction and loading.
Loaded ==
    /\ vm = load_data(load_program(StackProcessor(env.data_memory_size, env.stack_size),
                                   env.program), env.data)
    /\ host = Idle
    /\ result = None
    /\ raised = "none"
    /\ call = "init"
    /\ prev = vm
    /\ last = NoStep
    /\ scheduled = 0
    /\ delivered = <<>>
    /\ cost_sum = 0
    /\ faulted = None
    /\ single = Single(vm)
    /\ own = NoOwn

Init ==
    /\ env \in Scenarios
    /\ Loaded
    /\ file = None

\* The host schedules an input event, as machine.py does before it runs
\* the program.
ScheduleInput(e) ==
    /\ host.mode = "idle"
    /\ call \in {"init", "schedule_input_event"}
    /\ scheduled < env.max_events
    /\ e \in env.events
    /\ vm' = schedule_input_event(vm, e.cycle, e.data, scheduled + 1)
    /\ scheduled' = scheduled + 1
    /\ call' = "schedule_input_event"
    /\ prev' = vm
    /\ last' = NoStep
    /\ raised' = "none"
    /\ single' = Single(vm')
    /\ UNCHANGED <<env, host, result, delivered, cost_sum, faulted, file, own>>

\* The events a call of step accepts.
Accepted(p) ==
    IF p.state = HALTED THEN <<>>
    ELSE update(p.io_controller, p.cycle_count).interrupts

\* The bookkeeping every call of step shares.
Observe(r) ==
    /\ vm' = r.vm
    /\ prev' = vm
    /\ last' = [ret |-> r.ret, committed |-> r.committed, fault |-> r.fault,
                entered |-> r.entered]
    /\ raised' = r.raised
    /\ delivered' = delivered \o
          [i \in DOMAIN Accepted(vm) |->
              [cycle |-> Accepted(vm)[i].cycle, id |-> Accepted(vm)[i].id,
               data |-> Accepted(vm)[i].data, at |-> vm.cycle_count]]
    /\ cost_sum' = cost_sum +
          (IF r.committed = None THEN 0 ELSE CyclesOf(r.committed[1].opcode))
    /\ faulted' = IF faulted = None /\ r.fault # "none"
                  THEN Some([kind  |-> r.fault,
                             count |-> r.vm.instruction_count,
                             cycle |-> r.vm.cycle_count])
                  ELSE faulted
    /\ own' = OwnDropped(OwnAfter(OwnEntered(own, vm, r), Fetched(vm), r), Dropped(vm))

\* The host calls step.
HostStep ==
    /\ host.mode = "idle"
    /\ env.stepping
    /\ vm.cycle_count < env.horizon
    /\ Observe(step(vm))
    /\ call' = "step"
    /\ single' = Single(vm')
    /\ UNCHANGED <<env, host, result, scheduled, file>>

\* The host calls run(max_cycles): start_cycle = self.cycle_count.
RunCall(max_cycles) ==
    /\ host.mode = "idle"
    /\ max_cycles \in env.budgets
    /\ vm.cycle_count < env.horizon
    /\ host' = [mode |-> "run", start_cycle |-> vm.cycle_count,
                max_cycles |-> max_cycles]
    /\ call' = "run"
    /\ raised' = "none"
    /\ single' = IF single.over THEN single
                  ELSE [single EXCEPT !.max_cycles = @ + max_cycles]
    /\ UNCHANGED <<vm, env, result, prev, last, scheduled, delivered,
                   cost_sum, faulted, file, own>>

LoopCondition == vm.cycle_count - host.start_cycle < host.max_cycles

\* One iteration of the loop of run: step, and break when it returns False.
\* An exception leaves run without a result.
RunIter ==
    /\ host.mode = "run"
    /\ LoopCondition
    /\ vm.cycle_count < env.horizon \/ vm.state = HALTED
    /\ \E r \in {step(vm)} :
           /\ Observe(r)
           /\ host' = IF r.raised # "none" \/ ~r.ret THEN Idle ELSE host
           /\ result' = IF r.raised = "none" /\ ~r.ret
                        THEN Some(RunResult(r.vm, host.start_cycle))
                        ELSE result
    /\ single' = SingleIter(single)
    /\ UNCHANGED <<env, call, scheduled, file>>

\* The loop condition fails: run returns.
RunReturn ==
    /\ host.mode = "run"
    /\ ~LoopCondition
    /\ host' = Idle
    /\ result' = Some(RunResult(vm, host.start_cycle))
    /\ UNCHANGED <<vm, env, raised, call, prev, last, scheduled, delivered,
                   cost_sum, faulted, single, file, own>>

Next ==
    \/ \E e \in env.events : ScheduleInput(e)
    \/ HostStep
    \/ \E max_cycles \in env.budgets : RunCall(max_cycles)
    \/ RunIter
    \/ RunReturn

Spec == Init /\ [][Next]_vars

\* The translator writes one instruction to the binary file and the
\* machine reads it back.  Opcode bytes and operands at the ends of their
\* ranges and around the byte boundaries.
CodecInit ==
    /\ env = Short(<<I(Opcode_HALT, 0)>>)
    /\ Loaded
    /\ file \in {[instruction |-> I(opcode, operand), data |-> None, read |-> None] :
                    opcode \in {0, 1, 15, 16, 96, 112, 127, 128, 129, 160, 254, 255},
                    operand \in {0, 1, 127, 128, 255, 256, 257, 4660, 32768, 65535,
                                 65536, 65537, 1193046, 8388607, 8388608, 16777214,
                                 16777215}}

\* MachineCode.save_instruction_memory
save_instruction_memory ==
    /\ file.data = None
    /\ file' = [file EXCEPT !.data = Some(to_bytes(file.instruction))]
    /\ UNCHANGED <<vm, env, host, result, raised, call, prev, last, scheduled,
                   delivered, cost_sum, faulted, single, own>>

\* MachineCode.load_instruction_memory
load_instruction_memory ==
    /\ file.data # None
    /\ file.read = None
    /\ file' = [file EXCEPT !.read = Some(from_bytes(file.data[1]))]
    /\ UNCHANGED <<vm, env, host, result, raised, call, prev, last, scheduled,
                   delivered, cost_sum, faulted, single, own>>

CodecNext == save_instruction_memory \/ load_instruction_memory

CodecSpec == CodecInit /\ [][CodecNext]_vars

\* Sources with one assignment to x: at the top level, inside a block, a
\* branch or a function body, after an inner or a later declaration of the
\* same name, or to a parameter of that name.  target_const says whether
\* the declaration the target resolves to was made with const.
AssignmentSource(shape, operator, is_const, value) ==
    LET assign == Assignment(Identifier("x"), value, operator)
        first == <<VarDeclaration("y", Some(NumberLiteral(2)), FALSE),
                   VarDeclaration("x", Some(NumberLiteral(5)), is_const)>>
        again == VarDeclaration("x", Some(NumberLiteral(9)), ~is_const)
    IN  CASE shape = "global" -> Program(Append(first, assign))
          [] shape = "block" -> Program(Append(first, Block(<<assign>>)))
          [] shape = "branch" ->
                Program(Append(first, IfStatement(Identifier("y"), assign, None)))
          [] shape = "function" ->
                Program(Append(first,
                    FunctionDeclaration("g", <<>>, Block(<<assign>>))))
          [] shape = "shadowed" -> Program(Append(first, Block(<<again, assign>>)))
          [] shape = "left" -> Program(first \o <<Block(<<again>>), assign>>)
          [] shape = "redeclared" -> Program(first \o <<again, assign>>)
          [] shape = "parameter" ->
                Program(Append(first,
                    FunctionDeclaration("g", <<"x">>, Block(<<assign>>))))

AssignmentValues ==
    <<NumberLiteral(6), Identifier("y"),
      BinaryOperation(Identifier("x"), "+", NumberLiteral(1))>>

\* The translator is given one of the sources.
TranslatorInit ==
    /\ env = Short(<<I(Opcode_HALT, 0)>>)
    /\ Loaded
    /\ \E shape \in {"global", "block", "branch", "function", "shadowed", "left",
                     "redeclared", "parameter"},
          operator \in {"=", "+=", "-="}, is_const \in BOOLEAN,
          i \in DOMAIN AssignmentValues :
            file = [source |-> AssignmentSource(shape, operator, is_const,
                                                AssignmentValues[i]),
                    target_const |->
                        CASE shape \in {"shadowed", "redeclared"} -> ~is_const
                          [] shape = "parameter" -> FALSE
                          [] OTHER -> is_const,
                    machine_code |-> None, error |-> "none", exit |-> None]

\* translator.main from generate_code on: the image is kept when the
\* generator returns one, and the translator exits with 1 on CodeGenError.
generate_code ==
    /\ file.exit = None
    /\ \E g \in {generate(file.source)} :
          file' = [file EXCEPT
                      !.machine_code =
                          IF g.error = "none"
                          THEN Some([instructions |-> g.instructions,
                                     data_memory |-> g.data_memory])
                          ELSE None,
                      !.error = g.error,
                      !.exit = Some(IF g.error = "none" THEN 0 ELSE 1)]
    /\ UNCHANGED <<vm, env, host, result, raised, call, prev, last, scheduled,
                   delivered, cost_sum, faulted, single, own>>

TranslatorNext == generate_code

TranslatorSpec == TranslatorInit /\ [][TranslatorNext]_vars

\* ----------------------------------------------------------------------
\* Properties
\* ----------------------------------------------------------------------

\* run has just returned its dictionary to the host.
RunReturned ==
    host.mode = "idle" /\ call = "run" /\ raised = "none" /\ result # None

\* ... and it had been called before the first tick (start_cycle = 0).
FreshRunReturned ==
    RunReturned /\ result[1].cycles_executed = vm.cycle_count

\* C1: when a run started on a fresh processor returns with no instruction
\* in flight, the cycles_executed it reports is the sum of the cycle-table
\* costs of the instructions committed: no tick is spent outside an
\* instruction.
C1_CycleAccounting ==
    (FreshRunReturned /\ vm.current_instruction = None)
        => result[1].cycles_executed = cost_sum

C1_Witness ==
    /\ FreshRunReturned
    /\ vm.current_instruction = None
    /\ vm.state = HALTED
    /\ vm.instruction_count >= 4
    /\ result[1].cycles_executed = 8

\* C2: a handler is entered only by a call of step that found no
\* instruction in flight, interrupts enabled and no handler active.
C2_EntryAtBoundary ==
    last.entered # None =>
        /\ prev.current_instruction = None
        /\ prev.interrupts_enabled
        /\ ~prev.in_interrupt

C2_Witness ==
    /\ last.entered # None
    /\ prev.interrupts_enabled
    /\ prev.pending_interrupts # <<>>
    /\ vm.call_stack # <<>>

\* The requests whose handlers were entered, oldest first, as logged.
EnteredIds ==
    LET lines == SelectSeq(vm.execution_log, LAMBDA l : l.kind = "ENTER_IRQ")
    IN  [i \in DOMAIN lines |-> lines[i].id]

\* The place of an event in the order of acceptance.
AcceptedAt(id) == CHOOSE k \in DOMAIN delivered : delivered[k].id = id

\* The queue a call of step dispatches from: what was pending and what the
\* call itself accepted.
QueueSeen == prev.pending_interrupts \o AcceptInput(
                 [prev EXCEPT !.pending_interrupts = <<>>]).pending_interrupts

\* C3: requests are dispatched in queue order: the request a step takes is
\* the head of the queue, and handlers are entered in the order in which
\* their requests were queued.
C3_FifoDispatch ==
    /\ last.entered # None => last.entered[1] = QueueSeen[1].id
    /\ \A i, j \in DOMAIN EnteredIds :
          i < j => AcceptedAt(EnteredIds[i]) < AcceptedAt(EnteredIds[j])

C3_Witness ==
    /\ last.entered # None
    /\ Len(QueueSeen) >= 2
    /\ Len(EnteredIds) >= 2

\* C4: events are accepted in non-decreasing cycle order, and events
\* scheduled for the same cycle in the order of the schedule_input calls,
\* whatever their data.
C4_DeliveryOrder ==
    \A i, j \in DOMAIN delivered :
        i < j => /\ delivered[i].cycle <= delivered[j].cycle
                 /\ delivered[i].cycle = delivered[j].cycle
                        => delivered[i].id < delivered[j].id

\* The scenario S6: X, Y, Z scheduled at 10, 20, 30 and run(100) returned.
S6Ran ==
    /\ env.name = "S6"
    /\ FreshRunReturned
    /\ Len(delivered) = 3
    /\ {<<delivered[i].cycle, delivered[i].data>> : i \in DOMAIN delivered}
          = {<<10, ByteX>>, <<20, ByteY>>, <<30, ByteZ>>}

IrqLines(log) == SelectSeq(log, LAMBDA l : l.kind = "ENTER_IRQ")

\* C5: in scenario S6 the output returned by run(100) begins X, Y, Z and
\* the log returned has exactly three ENTER_IRQ lines, all for vector 0, at
\* cycles >= 10, >= 20 and >= 30.
C5_InterruptDemo ==
    S6Ran =>
        LET out   == result[1].output
            lines == IrqLines(result[1].execution_log)
        IN  /\ Len(out) >= 3
            /\ SubSeq(out, 1, 3) = <<ByteX, ByteY, ByteZ>>
            /\ Len(lines) = 3
            /\ \A i \in 1..3 : lines[i].vec = <<0, 0>> /\ lines[i].cycle >= 10 * i

C5_Witness ==
    /\ S6Ran
    /\ result[1].output = <<ByteX, ByteY, ByteZ>>
    /\ result[1].cycles_executed = 100

\* The errors the claim lists: pop from an empty stack, push on a full one,
\* a memory access out of range, division or modulo by zero, IRET with an
\* empty call stack.
FatalKinds == {"underflow", "overflow", "memory", "divzero", "iret"}

\* C6: such an error halts the processor on the tick of the faulting
\* instruction, no instruction commits and no tick passes afterwards, and a
\* run that returns afterwards reports the state halted.
C6_FaultHalts ==
    (faulted # None /\ faulted[1].kind \in FatalKinds) =>
        /\ vm.state = HALTED
        /\ vm.instruction_count = faulted[1].count
        /\ vm.cycle_count = faulted[1].cycle
        /\ RunReturned => result[1].state = HALTED

C6_Witness ==
    /\ faulted # None
    /\ faulted[1].kind = "divzero"
    /\ RunReturned
    /\ result[1].state = HALTED

\* C7: no call of step or run raises to the host.
C7_NoHostException == raised = "none"

\* C8: HALTED is terminal: a call of step, or an iteration of run, on a
\* halted processor changes nothing of it.
C8_HaltedTerminal == prev.state = HALTED => vm = prev

C8_Witness ==
    /\ prev.state = HALTED
    /\ RunReturned
    /\ vm.cycle_count > 0
    /\ result[1].state = HALTED

\* C9: the data stack never holds more than stack_size elements; a push on
\* a full stack halts and adds nothing; a pop from an empty stack halts.
C9_StackBounded ==
    /\ Len(vm.stack) <= vm.stack_size
    /\ last.fault = "overflow" =>
          vm.state = HALTED /\ vm.stack = prev.stack
    /\ last.fault = "underflow" =>
          vm.state = HALTED /\ vm.stack = <<>>

C9_Witness ==
    /\ last.fault = "overflow"
    /\ Len(vm.stack) = vm.stack_size
    /\ vm.state = HALTED

\* C10: every element of the data stack is a word, 0 <= x < 2^32.
C10_StackWords == \A i \in DOMAIN vm.stack : IsWord(vm.stack[i])

C10_Witness ==
    /\ \E i \in DOMAIN delivered : delivered[i].data = MinusOne
    /\ \E i \in DOMAIN vm.stack : vm.stack[i] = <<Limb - 1, Limb - 1>>

\* PC is the index of a loaded instruction.
PcValid(p) ==
    ~IntLess(p.pc, <<0, 0>>) /\ IntLess(p.pc, IntOf(Len(p.instruction_memory)))

\* C11: whenever the processor is not HALTED, PC is the index of a loaded
\* instruction.
C11_PcValid == vm.state # HALTED => PcValid(vm)

\* C12: the call stack never holds more than stack_size return addresses.
C12_CallStackBounded == Len(vm.call_stack) <= vm.stack_size

\* The last call of step committed an instruction with this opcode.
CommittedIs(opcode) ==
    last.committed # None /\ last.committed[1].opcode = opcode

\* The stack without its top element.
Front(s) == SubSeq(s, 1, Len(s) - 1)

\* C13: a committed CALL at index p appends p + 1 to the call stack, sets
\* PC to its operand and leaves the data stack alone; a RET with a
\* non-empty call stack pops its last entry into PC; a RET with an empty
\* call stack halts and pops nothing.
C13_CallRet ==
    /\ CommittedIs(Opcode_CALL) =>
          /\ vm.call_stack = Append(prev.call_stack, IntAdd(prev.pc, <<0, 1>>))
          /\ vm.pc = IntOf(last.committed[1].operand)
          /\ vm.stack = prev.stack
    /\ (CommittedIs(Opcode_RET) /\ prev.call_stack # <<>>) =>
          /\ vm.pc = prev.call_stack[Len(prev.call_stack)]
          /\ vm.call_stack = Front(prev.call_stack)
          /\ vm.state = RUNNING
    /\ (CommittedIs(Opcode_RET) /\ prev.call_stack = <<>>) =>
          /\ vm.state = HALTED
          /\ vm.call_stack = <<>>
          /\ vm.pc = prev.pc

\* A RET resumes after the CALL at index 0 that jumped to index 2.
C13_Witness ==
    /\ CommittedIs(Opcode_RET)
    /\ prev.call_stack = <<<<0, 1>>>>
    /\ prev.pc = <<0, 2>>
    /\ vm.pc = <<0, 1>>
    /\ vm.call_stack = <<>>

\* C14: a committed JMP makes its operand the next PC; JZ (JNZ) pops one
\* word and the next PC is the operand when the word is zero (non-zero)
\* and the next index otherwise.
C14_Jumps ==
    /\ CommittedIs(Opcode_JMP) =>
          vm.pc = IntOf(last.committed[1].operand) /\ vm.stack = prev.stack
    /\ (CommittedIs(Opcode_JZ) /\ prev.stack # <<>>) =>
          /\ vm.stack = Front(prev.stack)
          /\ vm.pc = IF prev.stack[Len(prev.stack)] = <<0, 0>>
                     THEN IntOf(last.committed[1].operand)
                     ELSE IntAdd(prev.pc, <<0, 1>>)
    /\ (CommittedIs(Opcode_JNZ) /\ prev.stack # <<>>) =>
          /\ vm.stack = Front(prev.stack)
          /\ vm.pc = IF prev.stack[Len(prev.stack)] # <<0, 0>>
                     THEN IntOf(last.committed[1].operand)
                     ELSE IntAdd(prev.pc, <<0, 1>>)

\* A JZ at index 1 that found 0 and went to index 3.
C14_Witness ==
    /\ CommittedIs(Opcode_JZ)
    /\ prev.stack = <<<<0, 0>>>>
    /\ prev.pc = <<0, 1>>
    /\ vm.pc = <<0, 3>>
    /\ vm.stack = <<>>

\* (x + y) mod 2^32 on words, limb by limb with the carry.
AddMod(x, y) ==
    <<(x[1] + y[1] + ((x[2] + y[2]) \div Limb)) % Limb, (x[2] + y[2]) % Limb>>

\* (-x) mod 2^32: the complement plus one.
NegMod(x) == AddMod(<<(Limb - 1) - x[1], (Limb - 1) - x[2]>>, <<0, 1>>)

\* (x * k) mod 2^32 for k below 2^16: x * k = (k mod 2) * x + 2 * (x * (k div 2)).
RECURSIVE MulSmall(_, _)
MulSmall(x, k) ==
    IF k = 0 THEN <<0, 0>>
    ELSE LET half == MulSmall(x, k \div 2)
         IN  AddMod(IF k % 2 = 1 THEN x ELSE <<0, 0>>, AddMod(half, half))

\* (x * y) mod 2^32 = x * low(y) + 2^16 * (x * high(y)).
MulMod(x, y) == AddMod(MulSmall(x, y[2]), <<MulSmall(x, y[1])[2], 0>>)

WrapArith(opcode, a, b) ==
    CASE opcode = Opcode_ADD -> AddMod(a, b)
      [] opcode = Opcode_SUB -> AddMod(a, NegMod(b))
      [] opcode = Opcode_MUL -> MulMod(a, b)

\* C15: a committed ADD, SUB or MUL that finds a (deeper) and b (top) on
\* the stack replaces the two by (a + b), (a - b) or (a * b) mod 2^32.
C15_WrapArithmetic ==
    \A opcode \in {Opcode_ADD, Opcode_SUB, Opcode_MUL} :
        (CommittedIs(opcode) /\ Len(prev.stack) >= 2) =>
            vm.stack = Append(SubSeq(prev.stack, 1, Len(prev.stack) - 2),
                              WrapArith(opcode,
                                        prev.stack[Len(prev.stack) - 1],
                                        prev.stack[Len(prev.stack)]))

\* A SUB that wraps below zero: 1 - 0x12345678.
C15_Witness ==
    /\ CommittedIs(Opcode_SUB)
    /\ prev.stack = <<<<0, 1>>, <<4660, 22136>>>>
    /\ vm.stack = <<<<60875, 43401>>>>

\* C16: a committed NEG that finds a on the stack replaces it by
\* (-a) mod 2^32, leaves the processor RUNNING and advances PC by one.
C16_Neg ==
    (CommittedIs(Opcode_NEG) /\ prev.stack # <<>>) =>
        /\ vm.state = RUNNING
        /\ vm.stack = Append(Front(prev.stack), NegMod(prev.stack[Len(prev.stack)]))
        /\ vm.pc = IntAdd(prev.pc, <<0, 1>>)

\* C17: a committed NOP changes nothing but PC, which advances by one,
\* and the cycle counter, which advances by one; the processor stays
\* RUNNING.
C17_Nop ==
    (CommittedIs(Opcode_NOP) /\ last.entered = None) =>
        /\ vm.state = RUNNING
        /\ vm.pc = IntAdd(prev.pc, <<0, 1>>)
        /\ vm.cycle_count = prev.cycle_count + 1
        /\ vm.stack = prev.stack
        /\ vm.call_stack = prev.call_stack
        /\ vm.data_memory = prev.data_memory
        /\ vm.vector_unit = prev.vector_unit
        /\ vm.interrupts_enabled = prev.interrupts_enabled
        /\ vm.in_interrupt = prev.in_interrupt
        /\ vm.output_buffer = prev.output_buffer

\* Byte i (0 the lowest) of a word.
ByteOf(w, i) ==
    CASE i = 0 -> w[2] % 256
      [] i = 1 -> w[2] \div 256
      [] i = 2 -> w[1] % 256
      [] i = 3 -> w[1] \div 256

\* A word (a byte) at this address lies inside data memory.
WordInRange(p, address) == address[1] = 0 /\ address[2] + 4 <= MemSize(p)

ByteInRange(p, address) == address[1] = 0 /\ address[2] < MemSize(p)

\* The top of the stack and the element under it, before the last step.
Top == prev.stack[Len(prev.stack)]

Under == prev.stack[Len(prev.stack) - 1]

\* The word the host put at address 0.
WordAtZero == <<(env.data[4] * 256) + env.data[3], (env.data[2] * 256) + env.data[1]>>

\* C18: STORE of v at an in-range address A, aligned or not, changes
\* exactly the bytes A..A+3 to the bytes of v, lowest first; LOAD pushes
\* the word whose bytes, lowest first, are those at A..A+3; so STORE then
\* LOAD returns v.  STOREB writes the low 8 bits of the word at A only,
\* LOADB pushes the byte at A; so STOREB then LOADB returns the low 8 bits.
C18_MemoryRoundTrip ==
    /\ (CommittedIs(Opcode_STORE) /\ Len(prev.stack) >= 2 /\ WordInRange(prev, Top)) =>
          /\ vm.stack = SubSeq(prev.stack, 1, Len(prev.stack) - 2)
          /\ \A a \in DOMAIN vm.data_memory :
                vm.data_memory[a] =
                    IF a >= Top[2] /\ a < Top[2] + 4
                    THEN ByteOf(Under, a - Top[2])
                    ELSE prev.data_memory[a]
    /\ (CommittedIs(Opcode_LOAD) /\ prev.stack # <<>> /\ WordInRange(prev, Top)) =>
          /\ Len(vm.stack) = Len(prev.stack)
          /\ Front(vm.stack) = Front(prev.stack)
          /\ \A i \in 0..3 :
                ByteOf(vm.stack[Len(vm.stack)], i) = prev.data_memory[Top[2] + i]
          /\ vm.data_memory = prev.data_memory
    /\ (CommittedIs(Opcode_STOREB) /\ Len(prev.stack) >= 2 /\ ByteInRange(prev, Top)) =>
          /\ vm.stack = SubSeq(prev.stack, 1, Len(prev.stack) - 2)
          /\ vm.data_memory = [prev.data_memory EXCEPT ![Top[2]] = Under[2] % 256]
    /\ (CommittedIs(Opcode_LOADB) /\ prev.stack # <<>> /\ ByteInRange(prev, Top)) =>
          vm.stack = Append(Front(prev.stack), <<0, prev.data_memory[Top[2]]>>)
    /\ (env.name = "store_load" /\ CommittedIs(Opcode_HALT)) =>
          vm.stack = <<WordAtZero>>
    /\ (env.name = "storeb_loadb" /\ CommittedIs(Opcode_HALT)) =>
          vm.stack = <<<<0, WordAtZero[2] % 256>>>>

\* 0x12345678 stored at the unaligned address 1 and read back.
C18_Witness ==
    /\ env.name = "store_load"
    /\ CommittedIs(Opcode_LOAD)
    /\ prev.stack = <<<<0, 1>>>>
    /\ vm.stack = <<<<4660, 22136>>>>
    /\ vm.data_memory[1] = 120
    /\ vm.data_memory[4] = 18

\* What the last step appended to the output buffer.
Appended ==
    SubSeq(vm.output_buffer, Len(prev.output_buffer) + 1, Len(vm.output_buffer))

\* The number a sequence of ASCII digits denotes, as a word.
RECURSIVE DecimalValue(_)
DecimalValue(s) ==
    IF s = <<>> THEN <<0, 0>>
    ELSE LET h  == DecimalValue(Front(s))
             lo == (h[2] * 10) + (s[Len(s)][2] - 48)
         IN  <<(h[1] * 10) + (lo \div Limb), lo % Limb>>

\* s is the decimal notation of the word w.
IsDecimalOf(s, w) ==
    /\ s # <<>>
    /\ \A i \in DOMAIN s : s[i][1] = 0 /\ s[i][2] \in 48..57
    /\ (Len(s) > 1 => s[1][2] # 48)
    /\ DecimalValue(s) = w

\* s is the bytes of memory from address up to the first zero byte (or the
\* end of memory).
IsStringAt(s, mem, address) ==
    /\ \A i \in DOMAIN s :
          /\ (address + i) - 1 \in DOMAIN mem
          /\ mem[(address + i) - 1] # 0
          /\ s[i] = <<0, mem[(address + i) - 1]>>
    /\ (address + Len(s) \in DOMAIN mem => mem[address + Len(s)] = 0)

C20_TestOutput ==
    (env.name = "test_output" /\ RunReturned) =>
        result[1].state = HALTED /\ result[1].output = <<<<0, 65>>>>

\* The word in port register k, 0 when the port was never written.
PortRegister(p, k) ==
    IF k \in DOMAIN p.io_controller.ports THEN p.io_controller.ports[k] ELSE <<0, 0>>

\* C21: a committed OUT k with k >= 3 pops one word, stores it in port
\* register k and appends nothing to the output buffer; a committed IN k
\* with k >= 3 pushes the word in port register k (0 when never written)
\* and leaves the input buffer as it was.
C21_PortRegisters ==
    /\ (CommittedIs(Opcode_OUT) /\ last.committed[1].operand >= 3 /\ prev.stack # <<>>) =>
          /\ vm.stack = Front(prev.stack)
          /\ vm.output_buffer = prev.output_buffer
          /\ PortRegister(vm, last.committed[1].operand) = Top
    /\ (CommittedIs(Opcode_IN) /\ last.committed[1].operand >= 3) =>
          /\ vm.stack = Append(prev.stack, PortRegister(prev, last.committed[1].operand))
          /\ vm.input_buffer = prev.input_buffer

\* The opcodes that move PC otherwise than to the next instruction, or stop.
ControlOpcodes ==
    {Opcode_JMP, Opcode_JZ, Opcode_JNZ, Opcode_CALL, Opcode_RET, Opcode_INT,
     Opcode_IRET, Opcode_HALT}

\* A program without control transfers whose last instruction is its only HALT.
StraightLine(program) ==
    /\ program # <<>>
    /\ program[Len(program)].opcode = Opcode_HALT
    /\ \A i \in 1..(Len(program) - 1) :
          program[i].opcode \in Opcode \ ControlOpcodes

\* spec.md S1
AddProgram ==
    <<I(Opcode_PUSH, 5), I(Opcode_PUSH, 3), I(Opcode_ADD, 0), I(Opcode_HALT, 0)>>

\* run has returned before its budget was used up, whichever budget of the
\* scenario it was given.
WithinBudget ==
    RunReturned /\ \A b \in env.budgets : result[1].cycles_executed < b

ComplexProgram ==
    <<I(Opcode_PUSH, 5), I(Opcode_PUSH, 3), I(Opcode_ADD, 0), I(Opcode_PUSH, 2),
      I(Opcode_MUL, 0), I(Opcode_HALT, 0)>>

\* C23: when run returns for PUSH 5; PUSH 3; ADD; PUSH 2; MUL; HALT the
\* state is halted, the data stack is exactly [16] and
\* instructions_executed is 5, the instructions completed before the HALT.
C23_ComplexCalculation ==
    (RunReturned /\ env.program = ComplexProgram) =>
        /\ result[1].state = HALTED
        /\ vm.stack = <<<<0, 16>>>>
        /\ result[1].instructions_executed = 5

\* C24: run calls made in a row leave the processor as one run call with
\* the sum of their budgets does; inside a run call cycle_count has advanced
\* by at most max_cycles; and a run call always returns its dictionary,
\* with the state the processor is in (running when the budget ended it).
C24_Resumable ==
    /\ (host.mode = "idle" /\ call = "run") =>
          /\ single.vm = vm
          /\ single.over \/ single.vm.cycle_count - single.start_cycle >= single.max_cycles
    /\ host.mode = "run" => vm.cycle_count - host.start_cycle <= host.max_cycles
    /\ call = "run" => raised = "none"
    /\ RunReturned => result[1].state = vm.state

\* The last step committed INT with this vector.
CommittedInt(vector) ==
    CommittedIs(Opcode_INT) /\ last.committed[1].operand = vector

\* C25: a committed INT 0x81 leaves interrupts_enabled true, whether it was
\* false or already true, and leaves the data stack, the call stack and the
\* handler table as they were; the pending queue gains nothing but the
\* input events accepted during that tick.  So a second call changes
\* nothing the first has not done.
C25_EnableIdempotent ==
    CommittedInt(129) =>
        /\ vm.interrupts_enabled
        /\ vm.state = RUNNING
        /\ vm.stack = prev.stack
        /\ vm.call_stack = prev.call_stack
        /\ vm.interrupt_handlers = prev.interrupt_handlers
        /\ vm.pending_interrupts = AcceptInput(prev).pending_interrupts
        /\ vm.in_interrupt = prev.in_interrupt

\* The second of the two calls, after the handler has run in between.
C25_Witness ==
    /\ env.name = "enable"
    /\ CommittedInt(129)
    /\ prev.interrupts_enabled
    /\ prev.pc = <<0, 4>>
    /\ delivered # <<>>
    /\ vm.pending_interrupts = <<>>

\* C26: the instruction read back from the four bytes written for the
\* opcode byte o and the 24-bit operand v is (o, v); the bytes are o and then
\* v, lowest byte first.
C26_RoundTrip ==
    /\ (file # None /\ file.data # None) =>
          /\ file.data[1][1] = file.instruction.opcode
          /\ (file.data[1][2] + (256 * file.data[1][3])) + (65536 * file.data[1][4])
                = file.instruction.operand
    /\ (file # None /\ file.read # None) => file.read[1] = file.instruction

C26_Witness ==
    /\ file # None
    /\ file.read # None
    /\ file.instruction = I(255, 16777215)
    /\ file.data[1] = <<255, 255, 255, 255>>

\* The depths, counted from the top of the stack, at which a vector
\* instruction expects register indices.
RegisterDepths(opcode) ==
    CASE opcode \in {Opcode_V_ADD, Opcode_V_SUB, Opcode_V_MUL} -> {1, 2, 3}
      [] opcode \in {Opcode_V_DOT, Opcode_V_COPY} -> {1, 2}
      [] opcode = Opcode_V_SCALE -> {1, 3}
      [] opcode = Opcode_V_SET -> {2}
      [] OTHER -> {1}

\* The register indices the instruction found on the stack.
NamedRegisters(instruction) ==
    {prev.stack[(Len(prev.stack) + 1) - d] : d \in RegisterDepths(instruction.opcode)}

InRegisterRange(w) == w[1] = 0 /\ w[2] \in 0..7

\* C30: a committed vector instruction that finds its arguments on the
\* stack and names a register index outside 0..7, or a V_SET whose element
\* index is outside the register's length, leaves the eight vector
\* registers as they were and the processor RUNNING.
C30_VectorNoOp ==
    \A opcode \in VectorOpcodes :
        (/\ CommittedIs(opcode)
         /\ Len(prev.stack) >= VectorArgs(opcode)
         /\ \/ \E w \in NamedRegisters(last.committed[1]) : ~InRegisterRange(w)
            \/ /\ opcode = Opcode_V_SET
               /\ InRegisterRange(Under)
               /\ last.committed[1].operand >= Len(prev.vector_unit[Under[2]]))
        => /\ vm.vector_unit = prev.vector_unit
           /\ vm.state = RUNNING

\* C27: when the code emitted for one expression node (a literal, an
\* identifier, a unary or binary operation, an array access, a vector
\* literal, a call of a builtin or of a user function) has run from an empty
\* stack to the final HALT, the data stack holds exactly one word.
C27_ExpressionDepth ==
    (env.name = "expression" /\ CommittedIs(Opcode_HALT)) => Len(vm.stack) = 1

\* The ASCII digits of a number below 100, as the words of the output buffer.
AsciiDecimal(n) ==
    IF n < 10 THEN <<<<0, 48 + n>>>>
    ELSE <<<<0, 48 + (n \div 10)>>, <<0, 48 + (n % 10)>>>>

\* C29: the image translated from
\* function f(n) { if (n <= 0) return 0; return n + f(n - 1); } print_number(f(k));
\* has, when run returns, halted with an empty call stack and an empty data
\* stack, and the output buffer holds the decimal digits of k(k+1)/2: "15"
\* for k = 5.
C29_RecursiveSum ==
    \A k \in 0..MaxSum :
        (env.name = "sum" /\ env.source = Some(SumProgram(k)) /\ RunReturned) =>
            /\ result[1].state = HALTED
            /\ vm.state = HALTED
            /\ vm.call_stack = <<>>
            /\ vm.stack = <<>>
            /\ vm.output_buffer = AsciiDecimal((k * (k + 1)) \div 2)

C29_Witness ==
    /\ env.name = "sum"
    /\ env.source = Some(SumProgram(5))
    /\ RunReturned
    /\ vm.state = HALTED
    /\ vm.output_buffer = <<<<0, 49>>, <<0, 53>>>>
    /\ vm.instruction_count = 94

\* C28: when the translator has finished with a source whose assignment
\* (=, += or -=) has a target that resolves to a binding declared const, the
\* generator has failed with the constant error and there is no image; when
\* the target resolves to a binding that is not const, there is an image and
\* no error.
C28_ConstAssignment ==
    (file # None /\ "source" \in DOMAIN file /\ file.exit # None) =>
        IF file.target_const
        THEN file.machine_code = None /\ file.error = "const" /\ file.exit = Some(1)
        ELSE file.machine_code # None /\ file.error = "none" /\ file.exit = Some(0)

C28_Witness ==
    /\ file # None
    /\ "source" \in DOMAIN file
    /\ file.source = AssignmentSource("left", "+=", TRUE, AssignmentValues[3])
    /\ file.target_const
    /\ file.exit = Some(1)
    /\ file.machine_code = None

\* machine.main after run: exit code 0 when the reported state is 'halted',
\* 1 otherwise.
exit_code(run_result) == IF run_result.state = HALTED THEN 0 ELSE 1

\* C31: when run returns after a fatal error (stack underflow or overflow,
\* bad memory address, division by zero, IRET with an empty call stack), what
\* the host sees differs from what it sees after a normal HALT: the machine
\* exits with a non-zero code.
C31_FatalErrorVisible ==
    (RunReturned /\ faulted # None /\ faulted[1].kind \in FatalKinds) =>
        exit_code(result[1]) # 0

\* The claim as stated: the first instruction committed after a handler's
\* IRET is the one at the return address.
C32_NextCommitAtReturn ==
    own.first # None => own.first[1].at = own.first[1].p

\* C32: a handler entry with PC = p appends p to the call stack and sets
\* in_interrupt; the IRET of a handler that left the call stack as deep as
\* it found it makes p the PC and clears in_interrupt; and, while every
\* handler returns so, each instruction the program commits outside a handler
\* is at the address the previous one left as PC.  (Another pending request
\* may be served before the instruction at p.)
C32_InterruptTransparent ==
    /\ (last.entered # None /\ last.committed = None) =>
          /\ vm.call_stack = Append(prev.call_stack, prev.pc)
          /\ vm.in_interrupt
    /\ own.returned # None =>
          /\ own.returned[1].pc = own.returned[1].p
          /\ ~own.returned[1].in_interrupt
    /\ ~own.broken => own.at = own.due

C32_Witness ==
    /\ env.name = "return"
    /\ own.returned # None
    /\ own.returned[1].p = <<0, 7>>
    /\ own.first # None
    /\ own.first[1].at = <<0, 7>>
    /\ own.at = <<0, 7>>
    /\ last.committed # None
    /\ ~own.broken

\* C33: a committed INT 0 with a data-memory address A on top of the stack
\* pops exactly that one word, appends the string stored at A to the
\* output, advances the PC by one, counts one instruction and logs one
\* line; a committed INT 1 pushes exactly one word 0 and advances the PC
\* by one.
C33_SoftwareInterrupt ==
    /\ (/\ CommittedIs(Opcode_INT)
        /\ last.committed[1].operand = 0
        /\ prev.stack # <<>>
        /\ ByteInRange(prev, Top)) =>
          /\ vm.stack = Front(prev.stack)
          /\ SubSeq(vm.output_buffer, 1, Len(prev.output_buffer)) = prev.output_buffer
          /\ Appended = CString(prev.data_memory, Top[2])
          /\ vm.pc = IntAdd(prev.pc, <<0, 1>>)
          /\ vm.instruction_count = prev.instruction_count + 1
          /\ Len(vm.execution_log) = Len(prev.execution_log) + 1
    /\ (CommittedIs(Opcode_INT) /\ last.committed[1].operand = 1) =>
          /\ vm.stack = Append(prev.stack, <<0, 0>>)
          /\ vm.pc = IntAdd(prev.pc, <<0, 1>>)

\* The bytes readLineBuf keeps of the input s: those before the first NUL or
\* newline, at most max - 1 of them.
RECURSIVE LineOf(_, _)
LineOf(s, max) ==
    IF s = <<>> \/ max <= 1 \/ Head(s) \in {<<0, 0>>, <<0, 10>>} THEN <<>>
    ELSE <<Head(s)>> \o LineOf(Tail(s), max - 1)

\* The length given to readLineBuf in the scenario, and the bytes the input
\* port has held.
ReadMax == env.source[1].statements[1].expression.arguments[2].value

ReadInput == [i \in DOMAIN delivered |-> delivered[i].data]

\* C34: the code of readLineBuf(buf, max), max >= 1, stores the input bytes
\* before the first NUL or newline, at most max - 1 of them, at buf, buf + 1,
\* ..., then one zero byte right after the last byte stored; no store goes
\* to an address >= buf + max, and the run halts within its budget.
C34_ReadLineBuf ==
    env.name = "readline" =>
        /\ (CommittedIs(Opcode_STOREB) \/ CommittedIs(Opcode_STORE)) =>
              /\ prev.stack # <<>>
              /\ Top[1] = 0
              /\ Top[2] < ReadBuf + ReadMax
        /\ CommittedIs(Opcode_STOREB) => Top[2] >= ReadBuf
        /\ RunReturned =>
              LET line == LineOf(ReadInput, ReadMax)
              IN  /\ result[1].state = HALTED
                  /\ faulted = None
                  /\ WithinBudget
                  /\ \A i \in DOMAIN line : vm.data_memory[(ReadBuf + i) - 1] = line[i][2]
                  /\ vm.data_memory[ReadBuf + Len(line)] = 0
                  /\ \A a \in DOMAIN vm.data_memory :
                        a > ReadBuf + Len(line) => vm.data_memory[a] = 0

\* Two letters stored and terminated although a third byte was waiting.
C34_Witness ==
    /\ env.name = "readline"
    /\ ReadMax = 3
    /\ RunReturned
    /\ ReadInput = <<ByteX, ByteA, ByteA>>
    /\ vm.data_memory[ReadBuf] = 88
    /\ vm.data_memory[ReadBuf + 1] = 65
    /\ vm.data_memory[ReadBuf + 2] = 0
    /\ vm.input_buffer = <<ByteA>>

\* C35: in_interrupt goes from true to false only when an IRET commits; no
\* translated image holds an IRET, and the code of a function ends with
\* RET; so once a handler translated from source has been entered, exactly
\* one ENTER_IRQ line is ever logged and in_interrupt stays true, also after
\* the handler's RET and whatever requests are pending.
C35_HandlerNeverLeft ==
    /\ (prev.in_interrupt /\ ~vm.in_interrupt) => CommittedIs(Opcode_IRET)
    /\ env.source # None =>
          \A i \in DOMAIN env.program : env.program[i].opcode # Opcode_IRET
    /\ env.name = "handler" =>
          /\ env.program[1].opcode = Opcode_JMP
          /\ env.program[env.program[1].operand].opcode = Opcode_RET
          /\ Len(IrqLines(vm.execution_log)) <= 1
          /\ IrqLines(vm.execution_log) # <<>> => vm.in_interrupt
          /\ (prev.in_interrupt /\ CommittedIs(Opcode_RET)) =>
                /\ vm.in_interrupt
                /\ vm.call_stack = <<>>
          /\ prev.in_interrupt => last.entered = None

\* The handler was entered once and left by RET; the program ran to its
\* HALT with two requests still pending.
C35_Witness ==
    /\ env.name = "handler"
    /\ RunReturned
    /\ vm.state = HALTED
    /\ CommittedIs(Opcode_HALT)
    /\ Len(delivered) = 3
    /\ Len(IrqLines(vm.execution_log)) = 1
    /\ vm.in_interrupt
    /\ vm.call_stack = <<>>
    /\ Len(vm.pending_interrupts) = 2

\* C36: the code of every statement returns the data stack to the depth it
\* had before the statement, so a program of statements reaches its HALT
\* with the stack as empty as at the start; so do an expression statement
\* that calls a function returning a value, a loop around it, and a
\* readLineBuf call ended by NUL or newline.
C36_StatementsBalanced ==
    (env.name \in {"statement", "readline"} /\ CommittedIs(Opcode_HALT) /\ faulted = None) =>
        vm.stack = <<>>

\* C37: every activation of a translated function has its own parameter
\* values: in function f(n) { if (n <= 0) return 0; return f(n - 1) + n; }
\* the n read after the inner call is the argument of the current
\* activation, so print_number(f(k)) outputs the decimal digits of
\* k(k+1)/2.
C37_OwnParameters ==
    \A k \in 0..MaxSum :
        (/\ env.name = "activation"
         /\ env.source = Some(ActivationProgram(k))
         /\ RunReturned) =>
            /\ result[1].state = HALTED
            /\ vm.output_buffer = AsciiDecimal((k * (k + 1)) \div 2)

\* The start value, the operator and the operand of a compound scenario.
CompoundStart == <<0, env.source[1].statements[1].initializer[1].value>>

CompoundOperator == env.source[1].statements[2].operator

CompoundOperand == <<0, env.source[1].statements[2].value.value>>

\* C38: for a non-const variable x holding v, the code of x += e leaves
\* (v + e) mod 2^32 in x and the code of x -= e leaves (v - e) mod 2^32.
C38_CompoundAssignment ==
    (env.name = "compound" /\ CommittedIs(Opcode_HALT)) =>
        UnpackWord(vm.data_memory, 0) =
            WrapArith(IF CompoundOperator = "+=" THEN Opcode_ADD ELSE Opcode_SUB,
                      CompoundStart, CompoundOperand)

\* The truth value of a condition over number literals, with every non-zero
\* word as true.
Truth(node) ==
    CASE node.kind = "UnaryOperation" -> node.operand.value = 0
      [] node.operator = "&&" -> node.left.value # 0 /\ node.right.value # 0
      [] node.operator = "||" -> node.left.value # 0 \/ node.right.value # 0

LogicCondition == env.source[1].statements[1].initializer[1]

\* C39: the code of a && b yields a non-zero word iff a and b are both
\* non-zero, a || b iff at least one is non-zero, !a iff a is zero, and an
\* if on such a condition takes the then branch iff the condition is true.
C39_LogicalOperators ==
    (env.name = "logic" /\ CommittedIs(Opcode_HALT)) =>
        /\ (UnpackWord(vm.data_memory, 0) # <<0, 0>>) <=> Truth(LogicCondition)
        /\ UnpackWord(vm.data_memory, 4) =
              (IF Truth(LogicCondition) THEN <<0, 1>> ELSE <<0, 2>>)

\* The ENTER_IRQ lines and the pending requests that name request id.
Served(p, id) ==
    \/ \E i \in DOMAIN p.execution_log :
          p.execution_log[i].kind = "ENTER_IRQ" /\ p.execution_log[i].id = id
    \/ \E i \in DOMAIN p.pending_interrupts : p.pending_interrupts[i].id = id

\* C40: when the request taken at an instruction boundary names a vector
\* with no handler, the call of step removes it from the queue, enters no
\* handler and logs no ENTER_IRQ line, leaves PC, call stack and
\* in_interrupt as they were and fetches the instruction at the PC; the
\* request is never in the queue or in an ENTER_IRQ line again, also after
\* a handler for its vector has been installed.
C40_UnhandledRequestDiscarded ==
    /\ own.drop # None =>
          /\ vm.pending_interrupts = Tail(AcceptInput(prev).pending_interrupts)
          /\ last.entered = None
          /\ IrqLines(vm.execution_log) = IrqLines(prev.execution_log)
          /\ IF last.committed = None
             THEN /\ vm.pc = prev.pc
                  /\ vm.call_stack = prev.call_stack
                  /\ vm.in_interrupt = prev.in_interrupt
                  /\ vm.current_instruction =
                        Some(prev.instruction_memory[prev.pc[2] + 1])
             ELSE last.committed[1] = prev.instruction_memory[prev.pc[2] + 1]
    /\ \A id \in own.dropped : ~Served(vm, id)

\* The first request was dropped before the handler was installed; the
\* second was served by the handler.
C40_Witness ==
    /\ env.name = "late_handler"
    /\ own.dropped = {1}
    /\ <<0, 0>> \in DOMAIN vm.interrupt_handlers
    /\ Served(vm, 2)
    /\ Len(IrqLines(vm.execution_log)) = 1
    /\ vm.state = HALTED
    /\ RunReturned

=============================================================================
